---- MODULE Spec2Model ----
(***************************************************************************)
(* A model of rtalla1/banking-system: the worker pool (thread_pool.cpp),   *)
(* the finance server's request handlers (finance.cpp), the wire encoding  *)
(* (common.cpp and the network channel) and the signal coordinator         *)
(* (signals).  Each subsystem has its own specification over the one       *)
(* set of variables; the variables of the other subsystems stay unchanged. *)
(***************************************************************************)
EXTENDS Integers, Sequences, FiniteSets, TLC

(* ------------------------------ bounds -------------------------------- *)

\* Largest number of worker threads a pool is constructed with.
MaxWorkers == 2

\* Number of tasks the owner of the stand-alone pool submits.
MaxTasks == 3

\* Number of tasks submitted in the specification with fairness.
MaxFairTasks == 2

\* Number of client connections of the finance server; connection c owns
\* pool object c (the pool its EARN_INTEREST request creates), and pool 1 is
\* also the stand-alone pool of PoolSpec.
MaxConns == 2

\* max_accounts of the finance server (the -m option plus one).
MaxAccounts == 2

\* Number of requests the finance server receives in all.
MaxReqs == 3

\* Number of requests the server receives in the interest scenario.
MaxEarnReqs == 2

\* Number of EARN_INTEREST requests among them.
MaxEarn == 1

\* Longest file name and longest payload of an encoded message.
MaxLen == 2

\* Number of threads of a process that do not block SIGINT.
MaxThreads == 3

\* Number of SIGINTs sent to the process.
MaxSignals == 3

\* Interrupt signals sent to the client.
MaxClientSignals == 2

\* The default of the client's --max-retries option.
MaxRetries == 3

\* Bodies the peers of a server send in all, and SIGINTs a server gets.
MaxSends == 2

MaxSrvSignals == 2

\* Bodies the peers send to a server whose shutdown is studied.
MaxSignedReqs ==
    2

MaxLifeSends == 1

MaxSrvConns == 1

\* Timed operations a process starts, children it forks, and pids in use.
MaxTimed == 2

MaxForks == 3

MaxChildren == 2

(* --------------------------- program constants ------------------------ *)

QUIT == 0
DEPOSIT == 1
WITHDRAW == 2
BALANCE == 3
UPLOAD_FILE == 4
DOWNLOAD_FILE == 5
LOGIN == 6
LOGOUT == 7
EARN_INTEREST == 8

(* ------------------------------ the pool ------------------------------ *)

VARIABLES
    opc,          \* per pool: where the owning thread is (enqueue / ~ThreadPool)
    nw,           \* per pool: numThreads given to the constructor
    tasks,        \* per pool: std::queue tasks
    stop,         \* per pool: bool stop
    activeTasks,  \* per pool: std::atomic<int> activeTasks
    queueMutex,   \* per pool: set of threads holding queueMutex (empty or one)
    wpc,          \* per pool, per worker: position in the worker loop
    wtask,        \* per pool, per worker: the task moved out of the queue
    joinIdx,      \* per pool: next worker ~ThreadPool joins
    nextTask,     \* per pool: number of enqueue calls begun so far
    deqCount,     \* ghost: per pool, per task: times popped from the queue
    beginCount,   \* ghost: per pool, per task: times task() was entered
    endCount,     \* ghost: per pool, per task: times task() returned
    dK,           \* ghost: tasks enqueued and unfinished when ~ThreadPool began
    dR            \* ghost: of those, tasks a worker had already dequeued

poolVars ==
    <<opc, nw, tasks, stop, activeTasks, queueMutex, wpc, wtask, joinIdx,
      nextTask, deqCount, beginCount, endCount, dK, dR>>

(* The finance server. *)
VARIABLES
    thread_count, \* the -t option: size of the server's pool
    balance,      \* per account: Account::balance (fixed point, see Scale)
    active,       \* per account: Account::active
    accId,        \* per account: Account::id
    accMutex,     \* per account: set of threads holding account_mutex
    hpc,          \* per connection: position of its handle_client call
    req,          \* per connection: Request r of the current iteration
    resp,         \* per connection: Response resp of the current iteration
    nReqs,        \* requests received so far, over all connections
    nEarn,        \* EARN_INTEREST requests received so far
    seen,         \* ghost: balance when WITHDRAW took the account mutex
    after,        \* ghost: balance when WITHDRAW released the account mutex
    hist          \* ghost: per account: the requests naming it, as received

finVars ==
    <<thread_count, balance, active, accId, accMutex, hpc, req, resp, nReqs,
      nEarn, seen, after, hist>>

(* The wire encoding: one message at a time travels over a channel. *)
VARIABLES
    chanPc,       \* what the channel holds: nothing, a body sent, a body parsed
    chanMsg,      \* the Request or Response that was encoded (ghost)
    chanBody,     \* the body on the wire, a sequence of characters
    chanOut       \* what the receiver decoded, or the exception it raised

wireVars ==
    <<chanPc, chanMsg, chanBody, chanOut>>

(* The signal coordinator of one process. *)
VARIABLES
    shutdown_requested, \* std::atomic<bool> shutdown_requested
    sigPc,        \* per thread: position inside sigint_handler, or "run"
    signalsLog,   \* the records appended to signals.log
    nSignals,     \* SIGINTs delivered so far
    exited,       \* exit(1) was called
    wasSet,       \* ghost: shutdown_requested has been stored true
    interrupted   \* per thread: a handler ran during its blocking call

sigVars ==
    <<shutdown_requested, sigPc, signalsLog, nSignals, exited, wasSet,
      interrupted>>

(* A server process: its main thread, its connections and their peers. *)
VARIABLES
    kind,         \* which server the process is: finance, file or logging
    mainPc,       \* where main is in its accept loop and its shutdown
    mainErrno,    \* errno of the main thread
    client_fd,    \* the connection accept_connection returned, or -1
    backlog,      \* connections established and not yet accepted, in order
    inbox,        \* per connection: bodies the peer sent, not yet received
    sentHist,     \* ghost: per connection: every body the peer sent, in order
    recvHist,     \* ghost: per connection: every request decoded from a body
                  \* of the peer, in order
    nSent,        \* ghost: per connection: responses sent
    lateDispatched, \* ghost: a body sent after the flag was set was dispatched
    servedBy,     \* ghost: per connection: the worker running its handler
    acceptsAfterSet, \* ghost: accept calls begun, and connections they
                  \* yielded, after the flag was set
    invalidSubmitted, \* ghost: a handler task was submitted for descriptor -1
    allowed_extensions, \* file server: the suffixes given on the command line
    storage,      \* file server: per file name, the content under storage/
    log_mutex,    \* logging server: set of connections holding log_mutex
    logLines      \* logging server: the lines appended to the log file

mainVars ==
    <<kind, mainPc, mainErrno, client_fd, backlog, acceptsAfterSet,
      invalidSubmitted>>

connVars ==
    <<inbox, sentHist, recvHist, nSent, lateDispatched, servedBy>>

storeVars ==
    <<allowed_extensions, storage, log_mutex, logLines>>

srvVars ==
    <<mainVars, connVars, storeVars>>

(* The interactive client: its menu loop, a transaction, the signal mask. *)
VARIABLES
    cpc,          \* where the client is in main or in retry_operation
    running,      \* bool running of the menu loop
    sigBlocked,   \* SIGINT is in the signal mask of the client
    sigPending,   \* a SIGINT is pending for the client
    max_retries,  \* the --max-retries option
    retries,      \* retry_operation: int retries
    success,      \* retry_operation: bool success
    retry,        \* retry_operation: char retry, as read by cin >> retry
    attempts,     \* ghost: calls of operation() in this retry_operation
    reported,     \* ghost: "Maximum retry attempts reached." was printed
    answer,       \* ghost: what the last prompt of this call read: a
                  \* character, "eof" when the read failed, "none" before
    sentInWindow, \* ghost: a SIGINT was sent while SIGINT was blocked
    sentSinceFail, \* ghost: a SIGINT was sent after the last failed attempt
    lateAttempt   \* ghost: an attempt began after such a SIGINT

(* The client's session: its channels and who is logged in. *)
VARIABLES
    channel,      \* per server: the client's channel pointer is not nullptr
    reachable,    \* the servers that listen while the client starts
    current_user, \* main: int current_user, -1 when nobody is logged in
    op,           \* the menu operation whose closure retry_operation runs
    clientSent    \* ghost: <<server, type>> of every request the client sent

sessVars ==
    <<channel, reachable, current_user, op, clientSent>>

clientVars ==
    <<cpc, running, sigBlocked, sigPending, max_retries, retries, success,
      retry, attempts, reported, answer, sentInWindow, sentSinceFail,
      lateAttempt, sessVars>>

(* The rest of the signal coordinator: the alarm, the registry of child   *)
(* servers, and the allocator that handlers share with the code they      *)
(* interrupt.                                                             *)
VARIABLES
    heapLock,     \* the thread inside malloc or free, 0 when none is
    timeout_occurred, \* std::atomic<bool> timeout_occurred
    alarmArmed,   \* alarm(n) was called and has neither expired nor been reset
    twPc,         \* where the caller is in a timed operation, or "idle"
    twResult,     \* what the last execute_with_timeout returned, or "thrown"
    alrmPc,       \* position inside sigalrm_handler, or "run"
    nTimed,       \* timed operations started so far
    lateAlarm,    \* ghost: an alarm expired while no timed operation ran
    child_exited, \* std::atomic<int> child_exited
    server_processes, \* std::vector<ServerProcess> server_processes
    children,     \* the children forked so far: pid, and "live", "zombie"
                  \* or "reaped"
    regPc,        \* register_server: "idle", or "push" inside push_back
    regArg,       \* register_server: the entry being appended
    chldPc,       \* position inside sigchld_handler, or "run"
    chldPid,      \* sigchld_handler: pid_t pid
    chldKid,      \* ghost: which child that pid belonged to
    owed,         \* ghost: entries whose child the handler reaped and looked up
    activeAnswer, \* what the last is_server_active returned
    statusOut     \* what the last print_server_status printed

procVars ==
    <<heapLock, timeout_occurred, alarmArmed, twPc, twResult, alrmPc, nTimed,
      lateAlarm, child_exited, server_processes, children, regPc, regArg,
      chldPc, chldPid, chldKid, owed, activeAnswer, statusOut>>

vars ==
    <<poolVars, finVars, wireVars, sigVars, srvVars, clientVars, procVars>>

\* The variables the finance server and its pools leave alone.
farVars ==
    <<wireVars, sigVars, srvVars, clientVars, procVars>>

\* The variables a pool leaves alone.
notPool ==
    <<finVars, farVars>>

Conns ==
    1..MaxConns

Pools ==
    Conns

WorkerIds ==
    1..MaxWorkers

\* The thread that constructed the pool, calls enqueue and runs ~ThreadPool.
Owner ==
    0

\* Tasks are numbered in enqueue order; the interest tasks of the finance
\* server are numbered by the account they are for.
TaskIds ==
    0..((IF MaxTasks > MaxAccounts THEN MaxTasks ELSE MaxAccounts) - 1)

Workers(p) ==
    1..nw[p]

\* Threads blocked inside condition.wait on pool p.
WaitingWorkers(p) ==
    {w \in Workers(p) : wpc[p][w] = "waiting"}

\* Tasks a worker of p has popped and whose task() has not returned yet.
HeldTasks(p) ==
    {wtask[p][w] : w \in {x \in Workers(p) :
        wpc[p][x] \in {"popped", "call", "body", "ai_locked"}}}

TasksInQueue(p) ==
    {tasks[p][i] : i \in 1..Len(tasks[p])}

\* No pool has been constructed.
PoolInit ==
    /\ opc = [p \in Pools |-> "none"]
    /\ nw = [p \in Pools |-> 0]
    /\ tasks = [p \in Pools |-> <<>>]
    /\ stop = [p \in Pools |-> FALSE]
    /\ activeTasks = [p \in Pools |-> 0]
    /\ queueMutex = [p \in Pools |-> {}]
    /\ wpc = [p \in Pools |-> [w \in WorkerIds |-> "absent"]]
    /\ wtask = [p \in Pools |-> [w \in WorkerIds |-> 0]]
    /\ joinIdx = [p \in Pools |-> 1]
    /\ nextTask = [p \in Pools |-> 0]
    /\ deqCount = [p \in Pools |-> [t \in TaskIds |-> 0]]
    /\ beginCount = [p \in Pools |-> [t \in TaskIds |-> 0]]
    /\ endCount = [p \in Pools |-> [t \in TaskIds |-> 0]]
    /\ dK = [p \in Pools |-> 0]
    /\ dR = [p \in Pools |-> 0]

\* condition.notify_all(): every thread blocked in condition.wait leaves the
\* wait and has to take queueMutex again before it re-evaluates its predicate.
WakeAllWorkers(p, self) ==
    [w \in WorkerIds |->
        IF w = self THEN "lock"
        ELSE IF wpc[p][w] = "waiting" THEN "lock" ELSE wpc[p][w]]

WakeOwner(p) ==
    IF opc[p] = "d_waiting" THEN "d_lock" ELSE opc[p]

\* ThreadPool::ThreadPool(numThreads): stop(false), activeTasks(0), and
\* numThreads worker threads started at the top of their loop.
Construct(p, n) ==
    /\ opc[p] = "none"
    /\ opc' = [opc EXCEPT ![p] = "ready"]
    /\ nw' = [nw EXCEPT ![p] = n]
    /\ stop' = [stop EXCEPT ![p] = FALSE]
    /\ activeTasks' = [activeTasks EXCEPT ![p] = 0]
    /\ wpc' = [wpc EXCEPT ![p] =
                 [w \in WorkerIds |-> IF w <= n THEN "lock" ELSE "absent"]]
    /\ UNCHANGED <<tasks, queueMutex, wtask, joinIdx, nextTask, deqCount,
                   beginCount, endCount, dK, dR>>

\* Worker loop, line 9: std::unique_lock<std::mutex> lock(queueMutex), also
\* the re-acquisition of the mutex when condition.wait is left.
WLock(p, w) ==
    /\ wpc[p][w] = "lock"
    /\ queueMutex[p] = {}
    /\ queueMutex' = [queueMutex EXCEPT ![p] = {w}]
    /\ wpc' = [wpc EXCEPT ![p][w] = "check"]
    /\ UNCHANGED <<opc, nw, tasks, stop, activeTasks, wtask, joinIdx, nextTask,
                   deqCount, beginCount, endCount, dK, dR>>
    /\ UNCHANGED notPool

\* A worker that copies the front task and leaves it in the queue.
WCheckNoPop(p, w) ==
    /\ wpc[p][w] = "check"
    /\ queueMutex[p] = {w}
    /\ queueMutex' = [queueMutex EXCEPT ![p] = {}]
    /\ IF ~(stop[p] \/ tasks[p] # <<>>)
         THEN /\ wpc' = [wpc EXCEPT ![p][w] = "waiting"]
              /\ UNCHANGED <<tasks, wtask, deqCount>>
         ELSE IF stop[p] /\ tasks[p] = <<>>
           THEN /\ wpc' = [wpc EXCEPT ![p][w] = "exited"]
                /\ UNCHANGED <<tasks, wtask, deqCount>>
           ELSE /\ wtask' = [wtask EXCEPT ![p][w] = Head(tasks[p])]
                /\ UNCHANGED tasks
                /\ deqCount' = [deqCount EXCEPT ![p][Head(tasks[p])] = @ + 1]
                /\ wpc' = [wpc EXCEPT ![p][w] = "popped"]
    /\ UNCHANGED <<opc, nw, stop, activeTasks, joinIdx, nextTask, beginCount,
                   endCount, dK, dR>>
    /\ UNCHANGED notPool

\* A worker that keeps queueMutex when it has taken a task out of the queue.
WCheckKeepsMutex(p, w) ==
    /\ wpc[p][w] = "check"
    /\ queueMutex[p] = {w}
    /\ IF ~(stop[p] \/ tasks[p] # <<>>)
         THEN /\ wpc' = [wpc EXCEPT ![p][w] = "waiting"]
              /\ queueMutex' = [queueMutex EXCEPT ![p] = {}]
              /\ UNCHANGED <<tasks, wtask, deqCount>>
         ELSE IF stop[p] /\ tasks[p] = <<>>
           THEN /\ wpc' = [wpc EXCEPT ![p][w] = "exited"]
                /\ queueMutex' = [queueMutex EXCEPT ![p] = {}]
                /\ UNCHANGED <<tasks, wtask, deqCount>>
           ELSE /\ wtask' = [wtask EXCEPT ![p][w] = Head(tasks[p])]
                /\ tasks' = [tasks EXCEPT ![p] = Tail(tasks[p])]
                /\ deqCount' = [deqCount EXCEPT ![p][Head(tasks[p])] = @ + 1]
                /\ wpc' = [wpc EXCEPT ![p][w] = "popped"]
                /\ UNCHANGED queueMutex
    /\ UNCHANGED <<opc, nw, stop, activeTasks, joinIdx, nextTask, beginCount,
                   endCount, dK, dR>>
    /\ UNCHANGED notPool

\* Worker loop, lines 10-16, with queueMutex held: the predicate of
\* condition.wait; when it is false the thread releases the mutex and blocks
\* in one step; when stop is set and the queue is empty the thread returns;
\* otherwise it moves the front task out, pops it and releases the mutex.
WCheck(p, w) ==
    /\ wpc[p][w] = "check"
    /\ queueMutex[p] = {w}
    /\ queueMutex' = [queueMutex EXCEPT ![p] = {}]
    /\ IF ~(stop[p] \/ tasks[p] # <<>>)
         THEN /\ wpc' = [wpc EXCEPT ![p][w] = "waiting"]
              /\ UNCHANGED <<tasks, wtask, deqCount>>
         ELSE IF stop[p] /\ tasks[p] = <<>>
           THEN /\ wpc' = [wpc EXCEPT ![p][w] = "exited"]
                /\ UNCHANGED <<tasks, wtask, deqCount>>
           ELSE /\ wtask' = [wtask EXCEPT ![p][w] = Head(tasks[p])]
                /\ tasks' = [tasks EXCEPT ![p] = Tail(tasks[p])]
                /\ deqCount' = [deqCount EXCEPT ![p][Head(tasks[p])] = @ + 1]
                /\ wpc' = [wpc EXCEPT ![p][w] = "popped"]
    /\ UNCHANGED <<opc, nw, stop, activeTasks, joinIdx, nextTask, beginCount,
                   endCount, dK, dR>>
    /\ UNCHANGED notPool

\* Worker loop, line 17: ++activeTasks, after queueMutex was released.
WInc(p, w) ==
    /\ wpc[p][w] = "popped"
    /\ activeTasks' = [activeTasks EXCEPT ![p] = @ + 1]
    /\ wpc' = [wpc EXCEPT ![p][w] = "call"]
    /\ UNCHANGED <<opc, nw, tasks, stop, queueMutex, wtask, joinIdx, nextTask,
                   deqCount, beginCount, endCount, dK, dR>>
    /\ UNCHANGED notPool

\* Worker loop, line 18: task() is entered (a task with no effect on the
\* pool; its duration is the time the worker stays at "body").
TaskBegin(p, w) ==
    /\ wpc[p][w] = "call"
    /\ wpc' = [wpc EXCEPT ![p][w] = "body"]
    /\ beginCount' = [beginCount EXCEPT ![p][wtask[p][w]] = @ + 1]
    /\ UNCHANGED <<opc, nw, tasks, stop, activeTasks, queueMutex, wtask,
                   joinIdx, nextTask, deqCount, endCount, dK, dR>>
    /\ UNCHANGED notPool

\* Worker loop, line 18: task() returns.
TaskEnd(p, w) ==
    /\ wpc[p][w] = "body"
    /\ wpc' = [wpc EXCEPT ![p][w] = "dec"]
    /\ endCount' = [endCount EXCEPT ![p][wtask[p][w]] = @ + 1]
    /\ UNCHANGED <<opc, nw, tasks, stop, activeTasks, queueMutex, wtask,
                   joinIdx, nextTask, deqCount, beginCount, dK, dR>>
    /\ UNCHANGED notPool

\* Worker loop, line 19: --activeTasks, without queueMutex.
WDec(p, w) ==
    /\ wpc[p][w] = "dec"
    /\ activeTasks' = [activeTasks EXCEPT ![p] = @ - 1]
    /\ wpc' = [wpc EXCEPT ![p][w] = "notify"]
    /\ UNCHANGED <<opc, nw, tasks, stop, queueMutex, wtask, joinIdx, nextTask,
                   deqCount, beginCount, endCount, dK, dR>>
    /\ UNCHANGED notPool

\* Worker loop, line 20: condition.notify_all(), without queueMutex; the
\* worker goes back to the top of its loop.
WNotify(p, w) ==
    /\ wpc[p][w] = "notify"
    /\ wpc' = [wpc EXCEPT ![p] = WakeAllWorkers(p, w)]
    /\ opc' = [opc EXCEPT ![p] = WakeOwner(p)]
    /\ UNCHANGED <<nw, tasks, stop, activeTasks, queueMutex, wtask, joinIdx,
                   nextTask, deqCount, beginCount, endCount, dK, dR>>
    /\ UNCHANGED notPool

\* std::condition_variable allows a blocked thread to wake without a notify.
SpuriousWake(p, w) ==
    /\ wpc[p][w] = "waiting"
    /\ wpc' = [wpc EXCEPT ![p][w] = "lock"]
    /\ UNCHANGED <<opc, nw, tasks, stop, activeTasks, queueMutex, wtask,
                   joinIdx, nextTask, deqCount, beginCount, endCount, dK, dR>>
    /\ UNCHANGED notPool

\* ThreadPool::enqueue, line 40: the owner takes queueMutex.
EnqLock(p) ==
    /\ opc[p] = "ready"
    /\ queueMutex[p] = {}
    /\ queueMutex' = [queueMutex EXCEPT ![p] = {Owner}]
    /\ opc' = [opc EXCEPT ![p] = "enq_push"]
    /\ UNCHANGED <<nw, tasks, stop, activeTasks, wpc, wtask, joinIdx, nextTask,
                   deqCount, beginCount, endCount, dK, dR>>
    /\ UNCHANGED notPool

\* A pool whose enqueue puts the task at the front of the queue.
EnqPushFront(p) ==
    /\ opc[p] = "enq_push"
    /\ queueMutex[p] = {Owner}
    /\ tasks' = [tasks EXCEPT ![p] = <<nextTask[p]>> \o @]
    /\ nextTask' = [nextTask EXCEPT ![p] = @ + 1]
    /\ queueMutex' = [queueMutex EXCEPT ![p] = {}]
    /\ opc' = [opc EXCEPT ![p] = "enq_notify"]
    /\ UNCHANGED <<nw, stop, activeTasks, wpc, wtask, joinIdx, deqCount,
                   beginCount, endCount, dK, dR>>
    /\ UNCHANGED notPool

\* ThreadPool::enqueue, lines 41-42: tasks.push(task), mutex released.
EnqPush(p) ==
    /\ opc[p] = "enq_push"
    /\ queueMutex[p] = {Owner}
    /\ tasks' = [tasks EXCEPT ![p] = Append(@, nextTask[p])]
    /\ nextTask' = [nextTask EXCEPT ![p] = @ + 1]
    /\ queueMutex' = [queueMutex EXCEPT ![p] = {}]
    /\ opc' = [opc EXCEPT ![p] = "enq_notify"]
    /\ UNCHANGED <<nw, stop, activeTasks, wpc, wtask, joinIdx, deqCount,
                   beginCount, endCount, dK, dR>>
    /\ UNCHANGED notPool

\* ThreadPool::enqueue, line 43: condition.notify_one() wakes one blocked
\* thread if there is one (the owner itself is never blocked here).
EnqNotify(p) ==
    /\ opc[p] = "enq_notify"
    /\ opc' = [opc EXCEPT ![p] = "ready"]
    /\ IF WaitingWorkers(p) = {}
         THEN UNCHANGED wpc
         ELSE \E w \in WaitingWorkers(p) :
                 wpc' = [wpc EXCEPT ![p][w] = "lock"]
    /\ UNCHANGED <<nw, tasks, stop, activeTasks, queueMutex, wtask, joinIdx,
                   nextTask, deqCount, beginCount, endCount, dK, dR>>
    /\ UNCHANGED notPool

\* ~ThreadPool is called (line 26).
DStart(p) ==
    /\ opc[p] = "ready"
    /\ opc' = [opc EXCEPT ![p] = "d_lock"]
    /\ dK' = [dK EXCEPT ![p] =
                Cardinality({t \in TaskIds : t < nextTask[p] /\ endCount[p][t] = 0})]
    /\ dR' = [dR EXCEPT ![p] = Cardinality(HeldTasks(p))]
    /\ UNCHANGED <<nw, tasks, stop, activeTasks, queueMutex, wpc, wtask,
                   joinIdx, nextTask, deqCount, beginCount, endCount>>
    /\ UNCHANGED notPool

\* ~ThreadPool, line 28, and the re-acquisition when condition.wait is left.
DLock(p) ==
    /\ opc[p] = "d_lock"
    /\ queueMutex[p] = {}
    /\ queueMutex' = [queueMutex EXCEPT ![p] = {Owner}]
    /\ opc' = [opc EXCEPT ![p] = "d_check"]
    /\ UNCHANGED <<nw, tasks, stop, activeTasks, wpc, wtask, joinIdx, nextTask,
                   deqCount, beginCount, endCount, dK, dR>>
    /\ UNCHANGED notPool

\* ~ThreadPool, lines 29-31: the predicate tasks.empty() && activeTasks == 0
\* is evaluated with the mutex held; when true stop is set and the mutex
\* released; when false the thread is about to block (activeTasks can change
\* before it does: workers change it without the mutex).
DCheck(p) ==
    /\ opc[p] = "d_check"
    /\ queueMutex[p] = {Owner}
    /\ IF tasks[p] = <<>> /\ activeTasks[p] = 0
         THEN /\ stop' = [stop EXCEPT ![p] = TRUE]
              /\ queueMutex' = [queueMutex EXCEPT ![p] = {}]
              /\ opc' = [opc EXCEPT ![p] = "d_notify"]
         ELSE /\ opc' = [opc EXCEPT ![p] = "d_block"]
              /\ UNCHANGED <<stop, queueMutex>>
    /\ UNCHANGED <<nw, tasks, activeTasks, wpc, wtask, joinIdx, nextTask,
                   deqCount, beginCount, endCount, dK, dR>>
    /\ UNCHANGED notPool

\* ~ThreadPool, line 29: condition.wait releases the mutex and blocks.
DBlock(p) ==
    /\ opc[p] = "d_block"
    /\ queueMutex[p] = {Owner}
    /\ queueMutex' = [queueMutex EXCEPT ![p] = {}]
    /\ opc' = [opc EXCEPT ![p] = "d_waiting"]
    /\ UNCHANGED <<nw, tasks, stop, activeTasks, wpc, wtask, joinIdx, nextTask,
                   deqCount, beginCount, endCount, dK, dR>>
    /\ UNCHANGED notPool

\* The destructor's wait may end without a notify as well.
DSpuriousWake(p) ==
    /\ opc[p] = "d_waiting"
    /\ opc' = [opc EXCEPT ![p] = "d_lock"]
    /\ UNCHANGED <<nw, tasks, stop, activeTasks, queueMutex, wpc, wtask,
                   joinIdx, nextTask, deqCount, beginCount, endCount, dK, dR>>
    /\ UNCHANGED notPool

\* ~ThreadPool, line 32: condition.notify_all().
DNotify(p) ==
    /\ opc[p] = "d_notify"
    /\ wpc' = [wpc EXCEPT ![p] = WakeAllWorkers(p, 0)]
    /\ opc' = [opc EXCEPT ![p] = "d_join"]
    /\ joinIdx' = [joinIdx EXCEPT ![p] = 1]
    /\ UNCHANGED <<nw, tasks, stop, activeTasks, queueMutex, wtask, nextTask,
                   deqCount, beginCount, endCount, dK, dR>>
    /\ UNCHANGED notPool

\* A join that does not wait for the thread (a detached worker).
JoinReturnsAtOnce(p, w) ==
    wpc[p][w] # "absent"

\* worker.join() returns once that worker's thread function has returned.
JoinReturns(p, w) ==
    wpc[p][w] = "exited"

\* ~ThreadPool, lines 33-35: the workers are joined in the order of the vector.
DJoin(p) ==
    /\ opc[p] = "d_join"
    /\ joinIdx[p] <= nw[p]
    /\ JoinReturns(p, joinIdx[p])
    /\ joinIdx' = [joinIdx EXCEPT ![p] = @ + 1]
    /\ UNCHANGED <<opc, nw, tasks, stop, activeTasks, queueMutex, wpc, wtask,
                   nextTask, deqCount, beginCount, endCount, dK, dR>>
    /\ UNCHANGED notPool

\* ~ThreadPool, line 36: the destructor returns.
DReturn(p) ==
    /\ opc[p] = "d_join"
    /\ joinIdx[p] > nw[p]
    /\ opc' = [opc EXCEPT ![p] = "d_done"]
    /\ UNCHANGED <<nw, tasks, stop, activeTasks, queueMutex, wpc, wtask,
                   joinIdx, nextTask, deqCount, beginCount, endCount, dK, dR>>
    /\ UNCHANGED notPool

(* -------------------------- the finance server ------------------------ *)

\* Amounts and balances are doubles in the program; the model keeps them as
\* exact fixed-point numbers, Scale units to 1.0, so that one multiplication
\* by 1.01 per EARN_INTEREST request stays exact.
Scale ==
    100 ^ MaxEarn

Accounts ==
    0..(MaxAccounts - 1)

\* user_id values of requests: valid ids, a negative id and max_accounts.
UserIds ==
    (0 - 1)..MaxAccounts

\* The amount field of DEPOSIT and WITHDRAW requests.
Amounts ==
    {Scale, 2 * Scale}

\* The amount field of EARN_INTEREST is the worker-count override: none,
\* a fraction that truncates to 0, or 1..MaxWorkers.
EarnAmounts ==
    {0, Scale \div 2} \cup {k * Scale : k \in 1..MaxWorkers}

Req(t, u, a) ==
    [type |-> t, user_id |-> u, amount |-> a]

Resp(s, b, m) ==
    [success |-> s, balance |-> b, message |-> m]

\* Response(): success(false), balance(0.0), message("").
NoResp ==
    Resp(FALSE, 0, "")

NoReq ==
    Req(QUIT, 0, 0)

\* The requests a connection may deliver to the finance server; LOGIN
\* stands for every request type the server has no branch for.
BankRequests ==
    {Req(QUIT, 0, 0)}
        \cup {Req(t, u, a) : t \in {DEPOSIT, WITHDRAW}, u \in UserIds, a \in Amounts}
        \cup {Req(t, u, 0) : t \in {BALANCE, LOGIN}, u \in UserIds}

\* The amount field as a peer may send it: negative, zero or positive.
SignedAmounts ==
    {0 - Scale, 0, Scale}

\* Requests on account 0 with such amounts; the amount of EARN_INTEREST
\* keeps the server's thread count.
SignedRequests ==
    {Req(t, 0, a) : t \in {DEPOSIT, WITHDRAW}, a \in SignedAmounts}
        \cup {Req(BALANCE, 0, 0), Req(EARN_INTEREST, 0, 0)}

\* The requests of the interest scenario: deposits, then EARN_INTEREST.
EarnRequests ==
    {Req(QUIT, 0, 0)}
        \cup {Req(DEPOSIT, u, Scale) : u \in Accounts}
        \cup {Req(EARN_INTEREST, 0, a) : a \in EarnAmounts}

\* The thread running handle_client for connection c, and worker w of the
\* pool that connection's EARN_INTEREST request created.
HandlerThread(c) ==
    <<c, 0>>

WorkerThread(p, w) ==
    <<p, w>>

accVars ==
    <<balance, active, accId, accMutex>>

\* r.user_id < 0 || r.user_id >= max_accounts is false.
ValidId(u) ==
    ~(u < 0 \/ u >= MaxAccounts)

\* The positions of a connection that no worker is serving.
NotRunning ==
    {"absent", "backlog", "accepted", "dropped", "queued", "closed"}

\* Connection c is between receiving a request and having sent its response.
InFlight(c) ==
    hpc[c] \notin NotRunning \cup {"loop", "recv"}

Running ==
    {"loop", "recv", "chk_active", "init_lock", "init_body", "dep_lock",
     "dep_body", "wd_lock", "wd_cmp", "wd_upd", "bal_lock", "bal_body",
     "earn_new", "earn", "respond", "file_put", "file_get", "log_lock",
     "log_write", "log_respond"}

FinInitFrom(pc0) ==
    /\ thread_count \in 0..MaxWorkers
    /\ balance = [a \in Accounts |-> 0]
    /\ active = [a \in Accounts |-> FALSE]
    /\ accId = [a \in Accounts |-> 0 - 1]
    /\ accMutex = [a \in Accounts |-> {}]
    /\ hpc = [c \in Conns |-> pc0]
    /\ req = [c \in Conns |-> NoReq]
    /\ resp = [c \in Conns |-> NoResp]
    /\ nReqs = 0
    /\ nEarn = 0
    /\ seen = [c \in Conns |-> 0]
    /\ after = [c \in Conns |-> 0]
    /\ hist = [a \in Accounts |-> <<>>]

\* The finance server with every connection accepted and handed to the pool.
FinInit ==
    FinInitFrom("queued")

\* The workers of the server's pool that are not inside a handle_client
\* call.
FreeWorkers ==
    {w \in 1..thread_count :
        \A d \in Conns : hpc[d] \in Running => servedBy[d] # w}

\* Idle workers are interchangeable: the first one stands for whichever
\* takes the task.
FirstFree ==
    CHOOSE w \in FreeWorkers : \A v \in FreeWorkers : w <= v

\* A pool that starts a handler for every connection at once.
HStartUnbounded(c) ==
    /\ hpc[c] = "queued"
    /\ \A d \in Conns : d < c => hpc[d] # "queued"
    /\ servedBy' = [servedBy EXCEPT ![c] =
                        IF FreeWorkers # {} THEN FirstFree ELSE 1]
    /\ hpc' = [hpc EXCEPT ![c] = "loop"]
    /\ UNCHANGED <<thread_count, accVars, req, resp, nReqs, nEarn, seen, after,
                   hist, poolVars>>
    /\ UNCHANGED <<wireVars, clientVars, procVars, sigVars, mainVars, storeVars, inbox, sentHist,
                   recvHist, nSent, lateDispatched>>

\* main, lines 200-214: the connections are handed to the server's pool in
\* the order they were accepted; a worker of that pool takes the next one
\* when it is free, so at most thread_count handlers run at a time.
HStart(c) ==
    /\ hpc[c] = "queued"
    /\ \A d \in Conns : d < c => hpc[d] # "queued"
    /\ FreeWorkers # {}
    /\ servedBy' = [servedBy EXCEPT ![c] = FirstFree]
    /\ hpc' = [hpc EXCEPT ![c] = "loop"]
    /\ UNCHANGED <<thread_count, accVars, req, resp, nReqs, nEarn, seen, after,
                   hist, poolVars>>
    /\ UNCHANGED <<wireVars, clientVars, procVars, sigVars, mainVars, storeVars, inbox, sentHist,
                   recvHist, nSent, lateDispatched>>

\* handle_client, line 58: while (running && !shutdown_requested); when the
\* flag is set the loop ends and the connection is closed (line 141).
HLoopTest(c) ==
    /\ hpc[c] = "loop"
    /\ hpc' = [hpc EXCEPT ![c] = IF shutdown_requested THEN "closed" ELSE "recv"]
    /\ UNCHANGED <<thread_count, accVars, req, resp, nReqs, nEarn, seen, after,
                   hist, poolVars>>
    /\ UNCHANGED farVars

\* Ghost bookkeeping when connection c receives request r.
RecvGhosts(c, r) ==
    hist' = [a \in Accounts |->
               IF r.type # QUIT /\ a = r.user_id
                 THEN Append(hist[a], [conn |-> c, type |-> r.type,
                                       amount |-> r.amount])
                 ELSE hist[a]]

\* handle_client, lines 61-78: receive_request returns r; QUIT is answered
\* at once, an id outside [0, max_accounts) is rejected, anything else goes
\* on to the lazy creation of the account.
Receive(c, r) ==
    /\ hpc[c] = "recv"
    /\ req' = [req EXCEPT ![c] = r]
    /\ nReqs' = nReqs + 1
    /\ nEarn' = IF r.type = EARN_INTEREST THEN nEarn + 1 ELSE nEarn
    /\ IF r.type = QUIT
         THEN /\ resp' = [resp EXCEPT ![c] =
                            Resp(TRUE, 0, "Server acknowledged disconnect")]
              /\ hpc' = [hpc EXCEPT ![c] = "respond"]
         ELSE IF ~ValidId(r.user_id)
           THEN /\ resp' = [resp EXCEPT ![c] = Resp(FALSE, 0, "Invalid account ID")]
                /\ hpc' = [hpc EXCEPT ![c] = "respond"]
           ELSE /\ resp' = [resp EXCEPT ![c] = Resp(TRUE, 0, "")]
                /\ hpc' = [hpc EXCEPT ![c] = "chk_active"]
    /\ RecvGhosts(c, r)
    /\ UNCHANGED <<thread_count, accVars, seen, after, poolVars>>
    /\ UNCHANGED <<wireVars, clientVars, procVars, sigVars, mainVars, storeVars, nSent>>

\* receive_request, lines 254-268, with the request r on the connection.
HRecv(c, r) ==
    /\ Receive(c, r)
    /\ UNCHANGED <<inbox, sentHist, recvHist, lateDispatched, servedBy>>

\* handle_client, lines 135-138: receive_request throws (the peer is gone),
\* running becomes false and the handler returns.
HDisconnect(c) ==
    /\ hpc[c] = "recv"
    /\ hpc' = [hpc EXCEPT ![c] = "closed"]
    /\ UNCHANGED <<thread_count, accVars, req, resp, nReqs, nEarn, seen, after,
                   hist, poolVars>>
    /\ UNCHANGED farVars

\* handle_client, lines 88-131: the branch taken for the request type.
Dispatch(t) ==
    IF t = DEPOSIT THEN "dep_lock"
    ELSE IF t = WITHDRAW THEN "wd_lock"
    ELSE IF t = BALANCE THEN "bal_lock"
    ELSE IF t = EARN_INTEREST THEN "earn_new"
    ELSE "respond"

\* handle_client, lines 128-131: the response of the final else branch.
DispatchResp(c) ==
    IF req[c].type \in {DEPOSIT, WITHDRAW, BALANCE, EARN_INTEREST}
      THEN resp[c]
      ELSE Resp(FALSE, 0, "Unknown RequestType")

\* A handler that never creates the account.
HCheckActiveNoCreate(c) ==
    /\ hpc[c] = "chk_active"
    /\ hpc' = [hpc EXCEPT ![c] = Dispatch(req[c].type)]
    /\ resp' = [resp EXCEPT ![c] = DispatchResp(c)]
    /\ UNCHANGED <<thread_count, accVars, req, nReqs, nEarn, seen, after,
                   hist, poolVars>>
    /\ UNCHANGED farVars

\* handle_client, line 81: accounts[r.user_id].active is read without the
\* account mutex (the read races with initialize; it yields the old or the
\* new value, which is the value before or after the writer's step).
HCheckActive(c) ==
    /\ hpc[c] = "chk_active"
    /\ IF ~active[req[c].user_id]
         THEN /\ hpc' = [hpc EXCEPT ![c] = "init_lock"]
              /\ UNCHANGED resp
         ELSE /\ hpc' = [hpc EXCEPT ![c] = Dispatch(req[c].type)]
              /\ resp' = [resp EXCEPT ![c] = DispatchResp(c)]
    /\ UNCHANGED <<thread_count, accVars, req, nReqs, nEarn, seen, after,
                   hist, poolVars>>
    /\ UNCHANGED farVars

\* Account::initialize, line 33: lock_guard on the account mutex.
HInitLock(c) ==
    /\ hpc[c] = "init_lock"
    /\ accMutex[req[c].user_id] = {}
    /\ accMutex' = [accMutex EXCEPT ![req[c].user_id] = {HandlerThread(c)}]
    /\ hpc' = [hpc EXCEPT ![c] = "init_body"]
    /\ UNCHANGED <<thread_count, balance, active, accId, req, resp, nReqs, nEarn,
                   seen, after, hist, poolVars>>
    /\ UNCHANGED farVars

\* Account::initialize, lines 34-37: id, balance = 0.0, active = true, and
\* the mutex is released; then the branch for the request type is chosen.
HInitBody(c) ==
    /\ hpc[c] = "init_body"
    /\ accMutex[req[c].user_id] = {HandlerThread(c)}
    /\ accId' = [accId EXCEPT ![req[c].user_id] = req[c].user_id]
    /\ balance' = [balance EXCEPT ![req[c].user_id] = 0]
    /\ active' = [active EXCEPT ![req[c].user_id] = TRUE]
    /\ accMutex' = [accMutex EXCEPT ![req[c].user_id] = {}]
    /\ hpc' = [hpc EXCEPT ![c] = Dispatch(req[c].type)]
    /\ resp' = [resp EXCEPT ![c] = DispatchResp(c)]
    /\ UNCHANGED <<thread_count, req, nReqs, nEarn, seen, after, hist,
                   poolVars>>
    /\ UNCHANGED farVars

\* handle_client, line 89: DEPOSIT takes the account mutex.
HDepLock(c) ==
    /\ hpc[c] = "dep_lock"
    /\ accMutex[req[c].user_id] = {}
    /\ accMutex' = [accMutex EXCEPT ![req[c].user_id] = {HandlerThread(c)}]
    /\ hpc' = [hpc EXCEPT ![c] = "dep_body"]
    /\ UNCHANGED <<thread_count, balance, active, accId, req, resp, nReqs, nEarn,
                   seen, after, hist, poolVars>>
    /\ UNCHANGED farVars

\* handle_client, lines 90-93: balance += amount, the response carries the
\* new balance, the mutex is released at the end of the branch.
HDepBody(c) ==
    /\ hpc[c] = "dep_body"
    /\ accMutex[req[c].user_id] = {HandlerThread(c)}
    /\ balance' = [balance EXCEPT ![req[c].user_id] = @ + req[c].amount]
    /\ resp' = [resp EXCEPT ![c] =
                  Resp(TRUE, balance[req[c].user_id] + req[c].amount,
                       "Deposit successful")]
    /\ accMutex' = [accMutex EXCEPT ![req[c].user_id] = {}]
    /\ hpc' = [hpc EXCEPT ![c] = "respond"]
    /\ UNCHANGED <<thread_count, active, accId, req, nReqs, nEarn, seen, after,
                   hist, poolVars>>
    /\ UNCHANGED farVars

\* A WITHDRAW branch that does not take the account mutex.
HWdNoLock(c) ==
    /\ hpc[c] = "wd_lock"
    /\ seen' = [seen EXCEPT ![c] = balance[req[c].user_id]]
    /\ hpc' = [hpc EXCEPT ![c] = "wd_cmp"]
    /\ UNCHANGED <<thread_count, accVars, req, resp, nReqs, nEarn, after,
                   hist, poolVars>>
    /\ UNCHANGED farVars

\* handle_client, line 95: WITHDRAW takes the account mutex.
HWdLock(c) ==
    /\ hpc[c] = "wd_lock"
    /\ accMutex[req[c].user_id] = {}
    /\ accMutex' = [accMutex EXCEPT ![req[c].user_id] = {HandlerThread(c)}]
    /\ seen' = [seen EXCEPT ![c] = balance[req[c].user_id]]
    /\ hpc' = [hpc EXCEPT ![c] = "wd_cmp"]
    /\ UNCHANGED <<thread_count, balance, active, accId, req, resp, nReqs, nEarn,
                   after, hist, poolVars>>
    /\ UNCHANGED farVars

\* A WITHDRAW branch without the comparison of line 96.
HWdCmpAlways(c) ==
    /\ hpc[c] = "wd_cmp"
    /\ hpc' = [hpc EXCEPT ![c] = "wd_upd"]
    /\ UNCHANGED <<resp, accMutex, after>>
    /\ UNCHANGED <<thread_count, balance, active, accId, req, nReqs, nEarn, seen,
                   hist, poolVars>>
    /\ UNCHANGED farVars

\* A WITHDRAW branch that debits the account before it reports
\* insufficient funds.
HWdCmpDebitsFirst(c) ==
    /\ hpc[c] = "wd_cmp"
    /\ IF balance[req[c].user_id] >= req[c].amount
         THEN /\ hpc' = [hpc EXCEPT ![c] = "wd_upd"]
              /\ UNCHANGED <<resp, accMutex, after, balance>>
         ELSE /\ resp' = [resp EXCEPT ![c] = Resp(FALSE, 0, "Insufficient funds")]
              /\ balance' = [balance EXCEPT ![req[c].user_id] = @ - req[c].amount]
              /\ accMutex' = [accMutex EXCEPT ![req[c].user_id] = {}]
              /\ after' = [after EXCEPT ![c] = balance[req[c].user_id]]
              /\ hpc' = [hpc EXCEPT ![c] = "respond"]
    /\ UNCHANGED <<thread_count, active, accId, req, nReqs, nEarn, seen,
                   hist, poolVars>>
    /\ UNCHANGED farVars

\* handle_client, lines 96 and 100-103: the comparison balance >= amount;
\* when it fails the response reports insufficient funds and the mutex is
\* released.
HWdCmp(c) ==
    /\ hpc[c] = "wd_cmp"
    /\ IF balance[req[c].user_id] >= req[c].amount
         THEN /\ hpc' = [hpc EXCEPT ![c] = "wd_upd"]
              /\ UNCHANGED <<resp, accMutex, after>>
         ELSE /\ resp' = [resp EXCEPT ![c] = Resp(FALSE, 0, "Insufficient funds")]
              /\ accMutex' = [accMutex EXCEPT ![req[c].user_id] = {}]
              /\ after' = [after EXCEPT ![c] = balance[req[c].user_id]]
              /\ hpc' = [hpc EXCEPT ![c] = "respond"]
    /\ UNCHANGED <<thread_count, balance, active, accId, req, nReqs, nEarn, seen,
                   hist, poolVars>>
    /\ UNCHANGED farVars

\* handle_client, lines 97-99: balance -= amount, the response carries the
\* new balance, the mutex is released at the end of the branch.
HWdUpd(c) ==
    /\ hpc[c] = "wd_upd"
    /\ balance' = [balance EXCEPT ![req[c].user_id] = @ - req[c].amount]
    /\ resp' = [resp EXCEPT ![c] =
                  Resp(TRUE, balance[req[c].user_id] - req[c].amount,
                       "Withdrawal successful")]
    /\ after' = [after EXCEPT ![c] = balance[req[c].user_id] - req[c].amount]
    /\ accMutex' = [accMutex EXCEPT ![req[c].user_id] = {}]
    /\ hpc' = [hpc EXCEPT ![c] = "respond"]
    /\ UNCHANGED <<thread_count, active, accId, req, nReqs, nEarn, seen,
                   hist, poolVars>>
    /\ UNCHANGED farVars

\* handle_client, line 106: BALANCE takes the account mutex.
HBalLock(c) ==
    /\ hpc[c] = "bal_lock"
    /\ accMutex[req[c].user_id] = {}
    /\ accMutex' = [accMutex EXCEPT ![req[c].user_id] = {HandlerThread(c)}]
    /\ hpc' = [hpc EXCEPT ![c] = "bal_body"]
    /\ UNCHANGED <<thread_count, balance, active, accId, req, resp, nReqs, nEarn,
                   seen, after, hist, poolVars>>
    /\ UNCHANGED farVars

\* handle_client, lines 107-109: the response carries the balance.
HBalBody(c) ==
    /\ hpc[c] = "bal_body"
    /\ accMutex[req[c].user_id] = {HandlerThread(c)}
    /\ resp' = [resp EXCEPT ![c] =
                  Resp(TRUE, balance[req[c].user_id], "View balance successful")]
    /\ accMutex' = [accMutex EXCEPT ![req[c].user_id] = {}]
    /\ hpc' = [hpc EXCEPT ![c] = "respond"]
    /\ UNCHANGED <<thread_count, balance, active, accId, req, nReqs, nEarn, seen,
                   after, hist, poolVars>>
    /\ UNCHANGED farVars

\* handle_client, lines 112-115: numThreads is thread_count, or the amount
\* truncated to int when the amount is positive.
NumThreads(c) ==
    IF req[c].amount > 0 THEN req[c].amount \div Scale ELSE thread_count

\* handle_client, line 115: ThreadPool pool(numThreads).
HEarnNew(c) ==
    /\ hpc[c] = "earn_new"
    /\ Construct(c, NumThreads(c))
    /\ hpc' = [hpc EXCEPT ![c] = "earn"]
    /\ UNCHANGED <<thread_count, accVars, req, resp, nReqs, nEarn, seen, after,
                   hist>>
    /\ UNCHANGED farVars

\* The loop of lines 116-120 stops one account early.
EarnLoopDoneEarly(c) ==
    nextTask[c] >= MaxAccounts - 1

\* handle_client, line 116: the loop condition id < max_accounts is false.
EarnLoopDone(c) ==
    nextTask[c] >= MaxAccounts

\* handle_client, lines 116-120: pool.enqueue of the task for account id
\* (the steps of ThreadPool::enqueue, taken by the handler's thread).
HEarnEnqueue(c) ==
    /\ hpc[c] = "earn"
    /\ \/ (~EarnLoopDone(c) /\ EnqLock(c))
       \/ EnqPush(c)
       \/ EnqNotify(c)

\* handle_client, line 122: the try block is left and pool is destroyed
\* (the steps of ThreadPool::~ThreadPool, taken by the handler's thread).
HEarnDestroy(c) ==
    /\ hpc[c] = "earn"
    /\ \/ (EarnLoopDone(c) /\ DStart(c))
       \/ DLock(c)
       \/ DCheck(c)
       \/ DBlock(c)
       \/ DSpuriousWake(c)
       \/ DNotify(c)
       \/ DJoin(c)
       \/ DReturn(c)

\* handle_client, lines 121 and 127: the destructor has returned; the
\* response says the accrual succeeded.
HEarnDone(c) ==
    /\ hpc[c] = "earn"
    /\ opc[c] = "d_done"
    /\ resp' = [resp EXCEPT ![c] = Resp(TRUE, 0, "Interest accrual successful")]
    /\ hpc' = [hpc EXCEPT ![c] = "respond"]
    /\ UNCHANGED <<thread_count, accVars, req, nReqs, nEarn, seen, after,
                   hist, poolVars>>
    /\ UNCHANGED farVars

\* applyInterest, line 41: the task for account wtask takes its mutex.
AILock(p, w) ==
    /\ wpc[p][w] = "call"
    /\ accMutex[wtask[p][w]] = {}
    /\ accMutex' = [accMutex EXCEPT ![wtask[p][w]] = {WorkerThread(p, w)}]
    /\ wpc' = [wpc EXCEPT ![p][w] = "ai_locked"]
    /\ beginCount' = [beginCount EXCEPT ![p][wtask[p][w]] = @ + 1]
    /\ UNCHANGED <<opc, nw, tasks, stop, activeTasks, queueMutex, wtask,
                   joinIdx, nextTask, deqCount, endCount, dK, dR>>
    /\ UNCHANGED <<thread_count, balance, active, accId, hpc, req, resp, nReqs,
                   nEarn, seen, after, hist>>
    /\ UNCHANGED farVars

\* applyInterest, lines 42-46: the new balance of an account.
WithInterest(isActive, b) ==
    IF ~isActive THEN b
    ELSE IF b > 0 THEN (b * 101) \div 100 ELSE b

\* applyInterest, lines 42-47: an inactive account is left alone, a positive
\* balance is multiplied by 1.01; the mutex is released and the task returns.
AIBody(p, w) ==
    /\ wpc[p][w] = "ai_locked"
    /\ accMutex[wtask[p][w]] = {WorkerThread(p, w)}
    /\ balance' = [balance EXCEPT ![wtask[p][w]] =
                     WithInterest(active[wtask[p][w]], @)]
    /\ accMutex' = [accMutex EXCEPT ![wtask[p][w]] = {}]
    /\ wpc' = [wpc EXCEPT ![p][w] = "dec"]
    /\ endCount' = [endCount EXCEPT ![p][wtask[p][w]] = @ + 1]
    /\ UNCHANGED <<opc, nw, tasks, stop, activeTasks, queueMutex, wtask,
                   joinIdx, nextTask, deqCount, beginCount, dK, dR>>
    /\ UNCHANGED <<thread_count, active, accId, hpc, req, resp, nReqs, nEarn,
                   seen, after, hist>>
    /\ UNCHANGED farVars

\* The steps of worker w of the pool of connection c outside task().
HEarnWorker(c, w) ==
    /\ \/ WLock(c, w)
       \/ WCheck(c, w)
       \/ WInc(c, w)
       \/ WDec(c, w)
       \/ WNotify(c, w)
       \/ SpuriousWake(c, w)

\* The pool object of connection c no longer exists.
PoolGone(p) ==
    /\ opc' = [opc EXCEPT ![p] = "none"]
    /\ nw' = [nw EXCEPT ![p] = 0]
    /\ tasks' = [tasks EXCEPT ![p] = <<>>]
    /\ stop' = [stop EXCEPT ![p] = FALSE]
    /\ activeTasks' = [activeTasks EXCEPT ![p] = 0]
    /\ queueMutex' = [queueMutex EXCEPT ![p] = {}]
    /\ wpc' = [wpc EXCEPT ![p] = [w \in WorkerIds |-> "absent"]]
    /\ wtask' = [wtask EXCEPT ![p] = [w \in WorkerIds |-> 0]]
    /\ joinIdx' = [joinIdx EXCEPT ![p] = 1]
    /\ nextTask' = [nextTask EXCEPT ![p] = 0]
    /\ deqCount' = [deqCount EXCEPT ![p] = [t \in TaskIds |-> 0]]
    /\ beginCount' = [beginCount EXCEPT ![p] = [t \in TaskIds |-> 0]]
    /\ endCount' = [endCount EXCEPT ![p] = [t \in TaskIds |-> 0]]
    /\ dK' = [dK EXCEPT ![p] = 0]
    /\ dR' = [dR EXCEPT ![p] = 0]

\* A handler that sends the response of a request a second time before it
\* goes on.
HRespondTwice(c) ==
    /\ hpc[c] = "respond"
    /\ nSent' = [nSent EXCEPT ![c] = @ + 1]
    /\ IF nSent[c] < Len(recvHist[c])
         THEN UNCHANGED <<hpc, req, resp, seen, after, poolVars>>
         ELSE /\ hpc' = [hpc EXCEPT ![c] =
                           IF req[c].type = QUIT THEN "closed" ELSE "loop"]
              /\ req' = [req EXCEPT ![c] = NoReq]
              /\ resp' = [resp EXCEPT ![c] = NoResp]
              /\ seen' = [seen EXCEPT ![c] = 0]
              /\ after' = [after EXCEPT ![c] = 0]
              /\ UNCHANGED poolVars
    /\ UNCHANGED <<thread_count, accVars, nReqs, nEarn, hist>>
    /\ UNCHANGED <<wireVars, clientVars, procVars, sigVars, mainVars, storeVars, inbox, sentHist,
                   recvHist, lateDispatched, servedBy>>

\* handle_client, lines 65-67 and 133: send_response(resp); after the answer
\* to QUIT the handler returns, otherwise it goes back to receive_request.
\* The locals of the iteration (r, resp, and pool) are gone.
HRespond(c) ==
    /\ hpc[c] = "respond"
    /\ hpc' = [hpc EXCEPT ![c] = IF req[c].type = QUIT THEN "closed" ELSE "loop"]
    /\ req' = [req EXCEPT ![c] = NoReq]
    /\ resp' = [resp EXCEPT ![c] = NoResp]
    /\ seen' = [seen EXCEPT ![c] = 0]
    /\ after' = [after EXCEPT ![c] = 0]
    /\ IF opc[c] # "none" THEN PoolGone(c) ELSE UNCHANGED poolVars
    /\ nSent' = [nSent EXCEPT ![c] = @ + 1]
    /\ UNCHANGED <<thread_count, accVars, nReqs, nEarn, hist>>
    /\ UNCHANGED <<wireVars, clientVars, procVars, sigVars, mainVars, storeVars, inbox, sentHist,
                   recvHist, lateDispatched, servedBy>>

\* The finance server serving DEPOSIT, WITHDRAW, BALANCE and QUIT.
FinNext ==
    \/ \E c \in Conns : HStart(c)
    \/ \E c \in Conns : HLoopTest(c)
    \/ \E c \in Conns : \E r \in BankRequests : nReqs < MaxReqs /\ HRecv(c, r)
    \/ \E c \in Conns : HDisconnect(c)
    \/ \E c \in Conns : HCheckActive(c)
    \/ \E c \in Conns : HInitLock(c)
    \/ \E c \in Conns : HInitBody(c)
    \/ \E c \in Conns : HDepLock(c)
    \/ \E c \in Conns : HDepBody(c)
    \/ \E c \in Conns : HWdLock(c)
    \/ \E c \in Conns : HWdCmp(c)
    \/ \E c \in Conns : HWdUpd(c)
    \/ \E c \in Conns : HBalLock(c)
    \/ \E c \in Conns : HBalBody(c)
    \/ \E c \in Conns : HRespond(c)

\* The finance server serving DEPOSIT, WITHDRAW, BALANCE and EARN_INTEREST
\* requests whose amounts have any sign.
SignedNext ==
    \/ \E c \in Conns : HStart(c)
    \/ \E c \in Conns : HLoopTest(c)
    \/ \E c \in Conns : \E r \in SignedRequests :
          /\ nReqs < MaxSignedReqs
          /\ r.type = EARN_INTEREST => nEarn < MaxEarn
          /\ HRecv(c, r)
    \/ \E c \in Conns : HCheckActive(c)
    \/ \E c \in Conns : HInitLock(c)
    \/ \E c \in Conns : HInitBody(c)
    \/ \E c \in Conns : HDepLock(c)
    \/ \E c \in Conns : HDepBody(c)
    \/ \E c \in Conns : HWdLock(c)
    \/ \E c \in Conns : HWdCmp(c)
    \/ \E c \in Conns : HWdUpd(c)
    \/ \E c \in Conns : HBalLock(c)
    \/ \E c \in Conns : HBalBody(c)
    \/ \E c \in Conns : HEarnNew(c)
    \/ \E c \in Conns : HEarnEnqueue(c)
    \/ \E c \in Conns : HEarnDestroy(c)
    \/ \E c \in Conns : HEarnDone(c)
    \/ \E c \in Conns : \E w \in WorkerIds : HEarnWorker(c, w)
    \/ \E c \in Conns : \E w \in WorkerIds : AILock(c, w)
    \/ \E c \in Conns : \E w \in WorkerIds : AIBody(c, w)
    \/ \E c \in Conns : HRespond(c)

\* The finance server serving DEPOSIT, EARN_INTEREST and QUIT on the
\* connections conns.
EarnStep(conns) ==
    \/ \E c \in conns : HStart(c)
    \/ \E c \in conns : HLoopTest(c)
    \/ \E c \in conns : \E r \in EarnRequests :
          /\ nReqs < MaxEarnReqs
          /\ r.type = EARN_INTEREST => nEarn < MaxEarn
          /\ HRecv(c, r)
    \/ \E c \in conns : HCheckActive(c)
    \/ \E c \in conns : HInitLock(c)
    \/ \E c \in conns : HInitBody(c)
    \/ \E c \in conns : HDepLock(c)
    \/ \E c \in conns : HDepBody(c)
    \/ \E c \in conns : HEarnNew(c)
    \/ \E c \in conns : HEarnEnqueue(c)
    \/ \E c \in conns : HEarnDestroy(c)
    \/ \E c \in conns : HEarnDone(c)
    \/ \E c \in conns : \E w \in WorkerIds : HEarnWorker(c, w)
    \/ \E c \in conns : \E w \in WorkerIds : AILock(c, w)
    \/ \E c \in conns : \E w \in WorkerIds : AIBody(c, w)
    \/ \E c \in conns : HRespond(c)

\* The finance server serving DEPOSIT, EARN_INTEREST and QUIT.
EarnNext ==
    EarnStep(Conns)

\* The same server with one connection served; the other stays queued.
EarnOneNext ==
    EarnStep({1})

(* --------------------------- the wire encoding ------------------------ *)

\* Strings are sequences of one-character strings.
Digits ==
    <<"0", "1", "2", "3", "4", "5", "6", "7", "8", "9">>

DigitChars ==
    {Digits[i] : i \in 1..10}

DigitValue(ch) ==
    (CHOOSE i \in 1..10 : Digits[i] = ch) - 1

\* The range of int.
IntMax ==
    2147483647

IntMin ==
    (0 - IntMax) - 1

\* The characters of file names and of payloads.
Chars ==
    {"a", "|"}

\* The strings over Chars of length at most MaxLen.
Strings ==
    UNION {[1..n -> Chars] : n \in 0..MaxLen}

\* operator<< of an int that is not negative: its decimal digits.
RECURSIVE NatStr(_)
NatStr(n) ==
    IF n < 10 THEN <<Digits[n + 1]>>
    ELSE NatStr(n \div 10) \o <<Digits[(n % 10) + 1]>>

\* operator<< of an int.
IntStr(n) ==
    IF n < 0 THEN <<"-">> \o NatStr(0 - n) ELSE NatStr(n)

\* operator<< of a double with the default precision, for the amounts of
\* the model: whole numbers below 10^6 are written as their digits.
AmountStr(a) ==
    IntStr(a)

Request(t, u, a, f, d) ==
    [type |-> t, user_id |-> u, amount |-> a, filename |-> f, data |-> d]

Response(s, b, d, m) ==
    [success |-> s, balance |-> b, data |-> d, message |-> m]

\* The exception a conversion raises.
Fault(what) ==
    [fault |-> what]

IsFault(x) ==
    "fault" \in DOMAIN x

\* send_request, lines 190-195: TYPE|USER_ID|AMOUNT|FILENAME|DATA.
RequestBody(r) ==
    IntStr(r.type) \o <<"|">> \o IntStr(r.user_id) \o <<"|">>
        \o AmountStr(r.amount) \o <<"|">> \o r.filename \o <<"|">> \o r.data

\* send_response, lines 283-287: SUCCESS|BALANCE|DATA|MESSAGE.
ResponseBody(r) ==
    (IF r.success THEN <<"1">> ELSE <<"0">>) \o <<"|">> \o AmountStr(r.balance)
        \o <<"|">> \o r.data \o <<"|">> \o r.message

\* The position of the first '|' of s, or 0.
FindDelimiter(s) ==
    IF \E i \in 1..Len(s) : s[i] = "|"
      THEN CHOOSE i \in 1..Len(s) : s[i] = "|" /\ \A j \in 1..(i - 1) : s[j] # "|"
      ELSE 0

\* parseRequest, lines 11-15: the body is cut at every '|'.
RECURSIVE Split(_)
Split(s) ==
    IF FindDelimiter(s) = 0 THEN <<s>>
    ELSE <<SubSeq(s, 1, FindDelimiter(s) - 1)>>
           \o Split(SubSeq(s, FindDelimiter(s) + 1, Len(s)))

\* The longest prefix of s made of digits.
RECURSIVE DigitPrefix(_)
DigitPrefix(s) ==
    IF s = <<>> \/ Head(s) \notin DigitChars THEN <<>>
    ELSE <<Head(s)>> \o DigitPrefix(Tail(s))

\* The value of -digits accumulated in int, or 1 when it leaves the range
\* of int (acc is never positive).
RECURSIVE NegValue(_, _)
NegValue(acc, ds) ==
    IF ds = <<>> THEN acc
    ELSE IF acc < (IntMin + DigitValue(Head(ds)) + 9) \div 10 THEN 1
    ELSE NegValue(acc * 10 - DigitValue(Head(ds)), Tail(ds))

RECURSIVE SkipSpaces(_)
SkipSpaces(s) ==
    IF s # <<>> /\ Head(s) = " " THEN SkipSpaces(Tail(s)) ELSE s

\* std::stoi: leading spaces, an optional sign, then digits up to the first
\* other character; std::invalid_argument when there is no digit,
\* std::out_of_range when the value is not an int.
Stoi(str) ==
    LET s == SkipSpaces(str)
        signed == s # <<>> /\ Head(s) \in {"-", "+"}
        ds == DigitPrefix(IF signed THEN Tail(s) ELSE s)
        neg == NegValue(0, ds)
    IN  IF ds = <<>> THEN Fault("invalid_argument")
        ELSE IF neg = 1 THEN Fault("out_of_range")
        ELSE IF signed /\ Head(s) = "-" THEN [value |-> neg]
        ELSE IF neg = IntMin THEN Fault("out_of_range")
        ELSE [value |-> 0 - neg]

\* std::stod on the amounts of the model, which are written without a
\* fraction or an exponent: as std::stoi.
Stod(str) ==
    Stoi(str)

\* parseRequest, line 23.
KindOutOfRange(type) ==
    type < 0 \/ type > 8

\* Request::parseRequest(buffer), lines 17-30.
parseRequest(buffer) ==
    LET parts == Split(buffer)
    IN  IF Len(parts) < 5 THEN Request(QUIT, 0, 0, <<>>, <<>>)
        ELSE IF IsFault(Stoi(parts[1])) THEN Stoi(parts[1])
        ELSE IF KindOutOfRange(Stoi(parts[1]).value)
          THEN Request(QUIT, 0, 0, <<>>, <<>>)
        ELSE IF IsFault(Stoi(parts[2])) THEN Stoi(parts[2])
        ELSE IF IsFault(Stod(parts[3])) THEN Stod(parts[3])
        ELSE Request(Stoi(parts[1]).value, Stoi(parts[2]).value,
                     Stod(parts[3]).value, parts[4], parts[5])

\* getline(fields, x, '|') called k times: the k-th field, or the empty
\* string when the stream was exhausted.
Field(parts, k) ==
    IF k <= Len(parts) THEN parts[k] ELSE <<>>

\* send_request, lines 231-242: the response body is read with four getline
\* calls and the balance is converted with stod.
parseResponse(buffer) ==
    LET parts == Split(buffer)
    IN  IF IsFault(Stod(Field(parts, 2))) THEN Stod(Field(parts, 2))
        ELSE Response(Field(parts, 1) = <<"1">>, Stod(Field(parts, 2)).value,
                      Field(parts, 3), Field(parts, 4))

\* The requests the client encodes.
WireRequests ==
    {Request(t, u, a, f, d) : t \in QUIT..EARN_INTEREST, u \in {0 - 1, 0, 12},
                              a \in {0, 50}, f \in Strings, d \in Strings}

\* The responses a server encodes.
WireResponses ==
    {Response(s, b, d, m) : s \in BOOLEAN, b \in {0, 50}, d \in Strings,
                            m \in Strings}

\* Kind fields of bodies that did not come from send_request: kinds in
\* range, integers out of range (the last two are not an int), not a number.
KindFields ==
    {IntStr(k) : k \in {0 - 1, 0, 8, 9, 12, IntMax}}
        \cup {<<"0", "9">>, <<" ", "9">>, <<"9", "a">>, <<"a">>, <<>>}
        \cup {<<"2", "1", "4", "7", "4", "8", "3", "6", "4", "8">>,
              <<"9", "9", "9", "9", "9", "9", "9", "9", "9", "9", "9">>}

\* What follows the kind field: from no field to four more fields.
Tails ==
    {<<>>, <<"|">>, <<"|", "0", "|", "0", "|">>,
     <<"|", "0", "|", "0", "|", "|">>, <<"|", "0", "|", "0", "|", "a", "|", "a">>}

RawBodies ==
    {k \o t : k \in KindFields, t \in Tails}

NoMsg ==
    [none |-> TRUE]

WireInit ==
    /\ chanPc = "idle"
    /\ chanMsg = NoMsg
    /\ chanBody = <<>>
    /\ chanOut = NoMsg

\* send_request, lines 190-209: the client writes the body of req.
SendRequest(r) ==
    /\ chanPc = "idle"
    /\ chanPc' = "request_sent"
    /\ chanMsg' = r
    /\ chanBody' = RequestBody(r)
    /\ UNCHANGED <<chanOut, poolVars, finVars, sigVars, srvVars,
                   clientVars, procVars>>

\* A peer writes a body that send_request did not build.
SendRaw(b) ==
    /\ chanPc = "idle"
    /\ chanPc' = "raw_sent"
    /\ chanMsg' = NoMsg
    /\ chanBody' = b
    /\ UNCHANGED <<chanOut, poolVars, finVars, sigVars, srvVars,
                   clientVars, procVars>>

\* receive_request, lines 254-268: the server reads the body and parses it.
ReceiveRequest ==
    /\ chanPc \in {"request_sent", "raw_sent"}
    /\ chanPc' = IF chanPc = "raw_sent" THEN "raw_parsed" ELSE "request_parsed"
    /\ chanOut' = parseRequest(chanBody)
    /\ UNCHANGED <<chanMsg, chanBody, poolVars, finVars, sigVars, srvVars,
                   clientVars, procVars>>

\* send_response, lines 281-299: the server writes the body of resp.
SendResponse(r) ==
    /\ chanPc = "idle"
    /\ chanPc' = "response_sent"
    /\ chanMsg' = r
    /\ chanBody' = ResponseBody(r)
    /\ UNCHANGED <<chanOut, poolVars, finVars, sigVars, srvVars,
                   clientVars, procVars>>

\* send_request, lines 211-242: the client reads the response body.
ReceiveResponse ==
    /\ chanPc = "response_sent"
    /\ chanPc' = "response_parsed"
    /\ chanOut' = parseResponse(chanBody)
    /\ UNCHANGED <<chanMsg, chanBody, poolVars, finVars, sigVars, srvVars,
                   clientVars, procVars>>

\* The message has been consumed; the channel carries the next one.
NextMessage ==
    /\ chanPc \in {"request_parsed", "raw_parsed", "response_parsed"}
    /\ chanPc' = "idle"
    /\ chanMsg' = NoMsg
    /\ chanBody' = <<>>
    /\ chanOut' = NoMsg
    /\ UNCHANGED <<poolVars, finVars, sigVars, srvVars,
                   clientVars, procVars>>

WireNext ==
    \/ \E r \in WireRequests : SendRequest(r)
    \/ \E b \in RawBodies : SendRaw(b)
    \/ ReceiveRequest
    \/ \E r \in WireResponses : SendResponse(r)
    \/ ReceiveResponse
    \/ NextMessage

(* ------------------------- the signal coordinator --------------------- *)

Threads ==
    1..MaxThreads

GracefulRecord ==
    "SIGINT received - initiating graceful shutdown"

ForcedRecord ==
    "Second SIGINT received - forcing exit"

SigInit ==
    /\ interrupted = [t \in Threads |-> FALSE]
    /\ shutdown_requested = FALSE
    /\ sigPc = [t \in Threads |-> "run"]
    /\ signalsLog = <<>>
    /\ nSignals = 0
    /\ exited = FALSE
    /\ wasSet = FALSE

\* The main thread of a process, and the thread serving connection c.
MainThread ==
    1

ConnThread(c) ==
    c + 1

\* setup_handlers, line 100: sa_flags = 0, no SA_RESTART, so a blocking
\* call of the thread that runs the handler fails with EINTR afterwards.
\* main is inside accept at "accept"; a handler at "recv" with nothing to
\* read is either inside recv or about to call it.
InCall(t) ==
    IF t = MainThread /\ mainPc = "accept" THEN {TRUE}
    ELSE IF \E c \in Conns : /\ t = ConnThread(c)
                              /\ hpc[c] = "recv"
                              /\ inbox[c] = <<>>
      THEN {TRUE, FALSE}
    ELSE {FALSE}

\* setup_handlers, lines 86-104: sa_mask is empty and sa_flags is 0, so
\* SIGINT is blocked only in the thread that is running its handler; the
\* kernel delivers a process-directed SIGINT to any thread that does not
\* block it.
Deliver(t) ==
    /\ ~exited
    /\ nSignals < MaxSignals
    /\ sigPc[t] = "run"
    /\ sigPc' = [sigPc EXCEPT ![t] = "test"]
    /\ nSignals' = nSignals + 1
    /\ \E i \in InCall(t) : interrupted' = [interrupted EXCEPT ![t] = i]
    /\ UNCHANGED <<shutdown_requested, signalsLog, exited, wasSet>>
    /\ UNCHANGED <<poolVars, finVars, wireVars, clientVars, procVars, srvVars>>

\* sigint_handler, line 118: the atomic load in if (!shutdown_requested).
SigTest(t) ==
    /\ ~exited
    /\ sigPc[t] = "test"
    /\ sigPc' = [sigPc EXCEPT ![t] = IF shutdown_requested THEN "second" ELSE "store"]
    /\ UNCHANGED <<shutdown_requested, signalsLog, nSignals, exited, wasSet, interrupted>>
    /\ UNCHANGED <<poolVars, finVars, wireVars, clientVars, procVars, srvVars>>

\* sigint_handler, line 119: the atomic store shutdown_requested = true.
SigStore(t) ==
    /\ ~exited
    /\ sigPc[t] = "store"
    /\ shutdown_requested' = TRUE
    /\ wasSet' = TRUE
    /\ sigPc' = [sigPc EXCEPT ![t] = "log"]
    /\ UNCHANGED <<signalsLog, nSignals, exited, interrupted>>
    /\ UNCHANGED <<poolVars, finVars, wireVars, clientVars, procVars, srvVars>>

\* sigint_handler, lines 120-124: log_signal_event appends the record, the
\* notice is written to stdout and the handler returns.
SigLogGraceful(t) ==
    /\ ~exited
    /\ sigPc[t] = "log"
    /\ heapLock = 0
    /\ signalsLog' = Append(signalsLog, GracefulRecord)
    /\ sigPc' = [sigPc EXCEPT ![t] = "run"]
    /\ UNCHANGED <<shutdown_requested, nSignals, exited, wasSet, interrupted>>
    /\ UNCHANGED <<poolVars, finVars, wireVars, clientVars, procVars, srvVars>>

\* A handler whose second branch returns to the interrupted code.
SigLogForcedReturns(t) ==
    /\ ~exited
    /\ sigPc[t] = "second"
    /\ heapLock = 0
    /\ signalsLog' = Append(signalsLog, ForcedRecord)
    /\ sigPc' = [sigPc EXCEPT ![t] = "run"]
    /\ UNCHANGED <<shutdown_requested, nSignals, exited, wasSet, interrupted>>
    /\ UNCHANGED <<poolVars, finVars, wireVars, clientVars, procVars, srvVars>>

\* sigint_handler, lines 126-128: the record of the second SIGINT.
SigLogForced(t) ==
    /\ ~exited
    /\ sigPc[t] = "second"
    /\ heapLock = 0
    /\ signalsLog' = Append(signalsLog, ForcedRecord)
    /\ sigPc' = [sigPc EXCEPT ![t] = "exit"]
    /\ UNCHANGED <<shutdown_requested, nSignals, exited, wasSet, interrupted>>
    /\ UNCHANGED <<poolVars, finVars, wireVars, clientVars, procVars, srvVars>>

\* sigint_handler, line 129: exit(1) ends the process.
SigExit(t) ==
    /\ ~exited
    /\ sigPc[t] = "exit"
    /\ exited' = TRUE
    /\ UNCHANGED <<shutdown_requested, sigPc, signalsLog, nSignals, wasSet, interrupted>>
    /\ UNCHANGED <<poolVars, finVars, wireVars, clientVars, procVars, srvVars>>

SigNext ==
    \/ \E t \in Threads : Deliver(t)
    \/ \E t \in Threads : SigTest(t)
    \/ \E t \in Threads : SigStore(t)
    \/ \E t \in Threads : SigLogGraceful(t)
    \/ \E t \in Threads : SigLogForced(t)
    \/ \E t \in Threads : SigExit(t)

(* ------------------------- a server process --------------------------- *)

ServerKinds ==
    {"finance", "file", "logging"}

\* The file names of the model: an allowed suffix, another suffix, none.
FileNames ==
    {<<"a", ".", "t">>, <<"a", ".", "x">>, <<"a">>}

\* What storage holds for a name no file has.
NoFile ==
    <<"missing">>

\* What the peer's close leaves in the inbox, in the place of a body: recv
\* returns 0.
Eof ==
    <<"eof">>

\* The state of main before its accept loop, for a process of one of kinds.
SrvInit(kinds) ==
    /\ kind \in kinds
    /\ mainPc = "loop"
    /\ mainErrno = "none"
    /\ client_fd = 0 - 1
    /\ backlog = <<>>
    /\ inbox = [c \in Conns |-> <<>>]
    /\ sentHist = [c \in Conns |-> <<>>]
    /\ recvHist = [c \in Conns |-> <<>>]
    /\ nSent = [c \in Conns |-> 0]
    /\ lateDispatched = FALSE
    /\ servedBy = [c \in Conns |-> 0]
    /\ acceptsAfterSet = [begun |-> 0, yielded |-> 0]
    /\ allowed_extensions \in
         IF kind = "file" THEN {{}, {<<".", "t">>}} ELSE {{}}
    /\ storage = [f \in FileNames |-> NoFile]
    /\ log_mutex = {}
    /\ logLines = <<>>
    /\ invalidSubmitted = FALSE

\* An accept loop that goes on whatever shutdown_requested is.
MainLoopTestIgnoresFlag ==
    /\ mainPc = "loop"
    /\ mainPc' = "call"
    /\ UNCHANGED <<kind, mainErrno, client_fd, backlog, acceptsAfterSet>>
    /\ UNCHANGED <<storeVars, connVars, poolVars, finVars, wireVars, clientVars, procVars, sigVars>>
    /\ UNCHANGED invalidSubmitted

\* main, line 204: while (!SignalHandling::shutdown_requested).
MainLoopTest ==
    /\ mainPc = "loop"
    /\ mainPc' = IF shutdown_requested THEN "drain" ELSE "call"
    /\ UNCHANGED <<kind, mainErrno, client_fd, backlog, acceptsAfterSet>>
    /\ UNCHANGED <<storeVars, connVars, poolVars, finVars, wireVars, clientVars, procVars, sigVars>>
    /\ UNCHANGED invalidSubmitted

\* main, line 206: accept_connection is called and blocks in accept.
MainCallAccept ==
    /\ mainPc = "call"
    /\ mainPc' = "accept"
    /\ acceptsAfterSet' = IF shutdown_requested
                            THEN [acceptsAfterSet EXCEPT !.begun = @ + 1]
                            ELSE acceptsAfterSet
    /\ UNCHANGED <<kind, mainErrno, client_fd, backlog>>
    /\ UNCHANGED <<storeVars, connVars, poolVars, finVars, wireVars, clientVars, procVars, sigVars>>
    /\ UNCHANGED invalidSubmitted

\* accept_connection, lines 153-163: accept returns the oldest established
\* connection; errno is left as it was.
MainAcceptReturn ==
    /\ mainPc = "accept"
    /\ ~interrupted[MainThread]
    /\ backlog # <<>>
    /\ client_fd' = Head(backlog)
    /\ backlog' = Tail(backlog)
    /\ hpc' = [hpc EXCEPT ![Head(backlog)] = "accepted"]
    /\ mainPc' = "got"
    /\ acceptsAfterSet' = IF shutdown_requested
                            THEN [acceptsAfterSet EXCEPT !.yielded = @ + 1]
                            ELSE acceptsAfterSet
    /\ UNCHANGED <<kind, mainErrno>>
    /\ UNCHANGED <<thread_count, accVars, req, resp, nReqs, nEarn, seen, after,
                   hist>>
    /\ UNCHANGED <<storeVars, connVars, poolVars, wireVars, clientVars, procVars, sigVars>>
    /\ UNCHANGED invalidSubmitted

\* accept_connection, lines 153-163: a handler ran on the main thread
\* during accept, which fails with EINTR; -1 is returned.
MainAcceptEintr ==
    /\ mainPc = "accept"
    /\ interrupted[MainThread]
    /\ interrupted' = [interrupted EXCEPT ![MainThread] = FALSE]
    /\ client_fd' = 0 - 1
    /\ mainErrno' = "EINTR"
    /\ mainPc' = "got"
    /\ UNCHANGED <<kind, backlog, acceptsAfterSet>>
    /\ UNCHANGED <<shutdown_requested, sigPc, signalsLog, nSignals, exited,
                   wasSet>>
    /\ UNCHANGED <<storeVars, connVars, poolVars, finVars, wireVars, clientVars, procVars>>
    /\ UNCHANGED invalidSubmitted

\* accept_connection, lines 153-163: accept fails for a reason other than
\* a signal (ECONNABORTED, EMFILE, ENFILE, ENOBUFS, ENOMEM, EPROTO); -1 is
\* returned and nothing is thrown.
MainAcceptFails ==
    /\ mainPc = "accept"
    /\ ~interrupted[MainThread]
    /\ client_fd' = 0 - 1
    /\ mainErrno' = "EFAIL"
    /\ mainPc' = "got"
    /\ UNCHANGED <<kind, backlog, acceptsAfterSet, invalidSubmitted>>
    /\ UNCHANGED <<storeVars, connVars, poolVars, finVars, wireVars, clientVars, procVars,
                   sigVars>>

\* main, lines 208-214: if (errno == EINTR) continue; otherwise client_fd,
\* a connection or -1, is handed to the server's pool in a handler task.
\* The task for -1 fails in its first receive and ends.
MainSubmit ==
    /\ mainPc = "got"
    /\ mainPc' = "loop"
    /\ IF client_fd \in Conns
         THEN hpc' = [hpc EXCEPT ![client_fd] =
                        IF mainErrno = "EINTR" THEN "dropped" ELSE "queued"]
         ELSE UNCHANGED hpc
    /\ invalidSubmitted' = (invalidSubmitted \/
                            (client_fd \notin Conns /\ mainErrno # "EINTR"))
    /\ client_fd' = 0 - 1
    /\ UNCHANGED <<kind, mainErrno, backlog, acceptsAfterSet>>
    /\ UNCHANGED <<thread_count, accVars, req, resp, nReqs, nEarn, seen, after,
                   hist>>
    /\ UNCHANGED <<storeVars, connVars, poolVars, wireVars, clientVars, procVars, sigVars>>

\* main, lines 229-234: the try block ends and ~ThreadPool of the server's
\* pool returns once every connection handed to it has been served.
MainDrain ==
    /\ mainPc = "drain"
    /\ \A c \in Conns : hpc[c] \notin Running \cup {"queued"}
    /\ mainPc' = "cleanup"
    /\ UNCHANGED <<kind, mainErrno, client_fd, backlog, acceptsAfterSet>>
    /\ UNCHANGED <<storeVars, connVars, poolVars, finVars, wireVars, clientVars, procVars, sigVars>>
    /\ UNCHANGED invalidSubmitted

\* main, lines 236-239: the accounts are freed, the shutdown is logged and
\* main returns.
MainCleanup ==
    /\ mainPc = "cleanup"
    /\ mainPc' = "done"
    /\ UNCHANGED <<kind, mainErrno, client_fd, backlog, acceptsAfterSet>>
    /\ UNCHANGED <<storeVars, connVars, poolVars, finVars, wireVars, clientVars, procVars, sigVars>>
    /\ UNCHANGED invalidSubmitted

\* A peer connects: the kernel completes the handshake on the listening
\* socket and queues the connection for accept.
ClientConnect(c) ==
    /\ hpc[c] = "absent"
    /\ \A d \in Conns : d < c => hpc[d] # "absent"
    /\ hpc' = [hpc EXCEPT ![c] = "backlog"]
    /\ backlog' = Append(backlog, c)
    /\ UNCHANGED <<kind, mainPc, mainErrno, client_fd, acceptsAfterSet,
                   invalidSubmitted>>
    /\ UNCHANGED <<thread_count, accVars, req, resp, nReqs, nEarn, seen, after,
                   hist>>
    /\ UNCHANGED <<storeVars, connVars, poolVars, wireVars, clientVars, procVars, sigVars>>

\* Whether the peer of c has closed its end.
PeerClosed(c) ==
    sentHist[c] # <<>> /\ sentHist[c][Len(sentHist[c])] = Eof

\* send_request, lines 188-243, by the peer of connection c: the body is
\* delivered whole to the server's socket.
ClientSend(c, body) ==
    /\ hpc[c] \notin {"absent", "dropped", "closed"}
    /\ ~PeerClosed(c)
    /\ inbox' = [inbox EXCEPT ![c] =
                   Append(@, [body |-> body, late |-> shutdown_requested])]
    /\ sentHist' = [sentHist EXCEPT ![c] = Append(@, body)]
    /\ UNCHANGED <<recvHist, nSent, lateDispatched, servedBy>>
    /\ UNCHANGED <<storeVars, mainVars, poolVars, finVars, wireVars, clientVars, procVars, sigVars>>

\* The peer of connection c closes its socket.
ClientClose(c) ==
    /\ hpc[c] \notin {"absent", "dropped", "closed"}
    /\ ~PeerClosed(c)
    /\ inbox' = [inbox EXCEPT ![c] =
                   Append(@, [body |-> Eof, late |-> shutdown_requested])]
    /\ sentHist' = [sentHist EXCEPT ![c] = Append(@, Eof)]
    /\ UNCHANGED <<recvHist, nSent, lateDispatched, servedBy>>
    /\ UNCHANGED <<storeVars, mainVars, poolVars, finVars, wireVars, clientVars, procVars, sigVars>>

(* The file server's handle_client. *)

\* find_last_of("."): the position of the last '.', or 0 for npos.
LastDot(f) ==
    IF \E i \in 1..Len(f) : f[i] = "."
      THEN CHOOSE i \in 1..Len(f) : f[i] = "." /\ \A j \in (i + 1)..Len(f) : f[j] # "."
      ELSE 0

\* filename.substr(dot_pos).
Extension(f) ==
    SubSeq(f, LastDot(f), Len(f))

\* A Response that carries file content.
FileResp(s, d, m) ==
    [success |-> s, balance |-> 0, data |-> d, message |-> m]

\* What the handlers of the file and the logging server leave alone.
bankVars ==
    <<thread_count, accVars, nEarn, seen, after, hist, poolVars>>

\* handle_client of the file server, lines 28-79 and 95-98: the request is
\* received; QUIT is acknowledged; an upload is refused when the allowlist
\* is not empty and the name has no suffix or one that is not listed.
FReceive(c, r) ==
    /\ hpc[c] = "recv"
    /\ req' = [req EXCEPT ![c] = r]
    /\ nReqs' = nReqs + 1
    /\ recvHist' = [recvHist EXCEPT ![c] = Append(@, r)]
    /\ IF r.type = QUIT
         THEN /\ resp' = [resp EXCEPT ![c] =
                            FileResp(TRUE, <<>>, "Server acknowledged disconnect")]
              /\ hpc' = [hpc EXCEPT ![c] = "respond"]
         ELSE IF r.type = UPLOAD_FILE
           THEN IF allowed_extensions # {} /\ LastDot(r.filename) = 0
                  THEN /\ resp' = [resp EXCEPT ![c] =
                                     FileResp(FALSE, <<>>, "File has no extension")]
                       /\ hpc' = [hpc EXCEPT ![c] = "respond"]
                ELSE IF /\ allowed_extensions # {}
                        /\ Extension(r.filename) \notin allowed_extensions
                  THEN /\ resp' = [resp EXCEPT ![c] =
                                     FileResp(FALSE, <<>>, "File extension not allowed")]
                       /\ hpc' = [hpc EXCEPT ![c] = "respond"]
                ELSE /\ resp' = [resp EXCEPT ![c] = FileResp(TRUE, <<>>, "")]
                     /\ hpc' = [hpc EXCEPT ![c] = "file_put"]
         ELSE IF r.type = DOWNLOAD_FILE
           THEN /\ resp' = [resp EXCEPT ![c] = FileResp(TRUE, <<>>, "")]
                /\ hpc' = [hpc EXCEPT ![c] = "file_get"]
         ELSE /\ resp' = [resp EXCEPT ![c] =
                            FileResp(FALSE, <<>>, "Unknown RequestType")]
              /\ hpc' = [hpc EXCEPT ![c] = "respond"]
    /\ UNCHANGED bankVars
    /\ UNCHANGED <<wireVars, clientVars, procVars, sigVars, mainVars, storeVars, nSent>>

\* handle_client of the file server, lines 67-78: the file is created under
\* storage/ and the data written, unless the stream cannot be opened.
FilePut(c) ==
    /\ hpc[c] = "file_put"
    /\ \E opened \in BOOLEAN :
         IF opened
           THEN /\ storage' = [storage EXCEPT ![req[c].filename] = req[c].data]
                /\ resp' = [resp EXCEPT ![c] =
                              FileResp(TRUE, <<>>, "File uploaded successfully")]
           ELSE /\ resp' = [resp EXCEPT ![c] =
                              FileResp(FALSE, <<>>, "Failed to create file")]
                /\ UNCHANGED storage
    /\ hpc' = [hpc EXCEPT ![c] = "respond"]
    /\ UNCHANGED <<req, nReqs, allowed_extensions, log_mutex, logLines>>
    /\ UNCHANGED bankVars
    /\ UNCHANGED <<wireVars, clientVars, procVars, sigVars, mainVars, connVars>>

\* A download that answers a missing file with success and no data.
FileGetEmpty(c) ==
    /\ hpc[c] = "file_get"
    /\ resp' = [resp EXCEPT ![c] =
                  IF storage[req[c].filename] = NoFile
                    THEN FileResp(TRUE, <<>>, "File downloaded successfully")
                    ELSE FileResp(TRUE, storage[req[c].filename],
                                  "File downloaded successfully")]
    /\ hpc' = [hpc EXCEPT ![c] = "respond"]
    /\ UNCHANGED <<req, nReqs>>
    /\ UNCHANGED bankVars
    /\ UNCHANGED <<wireVars, clientVars, procVars, sigVars, srvVars>>

\* handle_client of the file server, lines 80-94: the file is read back,
\* or "File not found".
FileGet(c) ==
    /\ hpc[c] = "file_get"
    /\ resp' = [resp EXCEPT ![c] =
                  IF storage[req[c].filename] = NoFile
                    THEN FileResp(FALSE, <<>>, "File not found")
                    ELSE FileResp(TRUE, storage[req[c].filename],
                                  "File downloaded successfully")]
    /\ hpc' = [hpc EXCEPT ![c] = "respond"]
    /\ UNCHANGED <<req, nReqs>>
    /\ UNCHANGED bankVars
    /\ UNCHANGED <<wireVars, clientVars, procVars, sigVars, srvVars>>

(* The logging server's handle_client. *)

\* handle_client of the logging server, lines 56-63: the request is
\* received; QUIT is acknowledged, anything else is to be logged.
LReceive(c, r) ==
    /\ hpc[c] = "recv"
    /\ req' = [req EXCEPT ![c] = r]
    /\ nReqs' = nReqs + 1
    /\ recvHist' = [recvHist EXCEPT ![c] = Append(@, r)]
    /\ IF r.type = QUIT
         THEN /\ resp' = [resp EXCEPT ![c] =
                            FileResp(TRUE, <<>>, "Server acknowledged disconnect")]
              /\ hpc' = [hpc EXCEPT ![c] = "respond"]
         ELSE /\ resp' = [resp EXCEPT ![c] = FileResp(FALSE, <<>>, "")]
              /\ hpc' = [hpc EXCEPT ![c] = "log_lock"]
    /\ UNCHANGED bankVars
    /\ UNCHANGED <<wireVars, clientVars, procVars, sigVars, mainVars, storeVars, nSent>>

\* handle_client of the logging server, line 66: lock_guard on log_mutex.
LogLock(c) ==
    /\ hpc[c] = "log_lock"
    /\ log_mutex = {}
    /\ log_mutex' = {c}
    /\ hpc' = [hpc EXCEPT ![c] = "log_write"]
    /\ UNCHANGED <<req, resp, nReqs, allowed_extensions, storage, logLines>>
    /\ UNCHANGED bankVars
    /\ UNCHANGED <<wireVars, clientVars, procVars, sigVars, mainVars, connVars>>

\* handle_client of the logging server, lines 67-110: the log file is
\* opened for appending and one line is written, or the open fails.
LogWrite(c) ==
    /\ hpc[c] = "log_write"
    /\ \E opened \in BOOLEAN :
         IF opened
           THEN /\ logLines' = Append(logLines, [user_id |-> req[c].user_id,
                                                  type |-> req[c].type])
                /\ resp' = [resp EXCEPT ![c] =
                              FileResp(TRUE, <<>>, "Logged successfully")]
           ELSE /\ resp' = [resp EXCEPT ![c] =
                              FileResp(FALSE, <<>>, "Failed to open log file")]
                /\ UNCHANGED logLines
    /\ hpc' = [hpc EXCEPT ![c] = "log_respond"]
    /\ UNCHANGED <<req, nReqs, allowed_extensions, storage, log_mutex>>
    /\ UNCHANGED bankVars
    /\ UNCHANGED <<wireVars, clientVars, procVars, sigVars, mainVars, connVars>>

\* handle_client of the logging server, lines 71-72 and 112: the response
\* is sent while log_mutex is held; the lock_guard releases it when the
\* iteration ends.
LogRespond(c) ==
    /\ hpc[c] = "log_respond"
    /\ nSent' = [nSent EXCEPT ![c] = @ + 1]
    /\ log_mutex' = log_mutex \ {c}
    /\ hpc' = [hpc EXCEPT ![c] = "loop"]
    /\ req' = [req EXCEPT ![c] = NoReq]
    /\ resp' = [resp EXCEPT ![c] = NoResp]
    /\ UNCHANGED <<nReqs, allowed_extensions, storage, logLines>>
    /\ UNCHANGED bankVars
    /\ UNCHANGED <<wireVars, clientVars, procVars, sigVars, mainVars, inbox, sentHist, recvHist,
                   lateDispatched, servedBy>>

(* The receive step of the three servers. *)

\* What a handler makes of a decoded body: the finance server keeps the
\* kind, the account and the amount.
BankReq(r) ==
    Req(r.type, r.user_id, r.amount)

\* A receive step that takes the newest body of the inbox instead of the
\* oldest.
HRecvBodyNewest(c) ==
    /\ hpc[c] = "recv"
    /\ inbox[c] # <<>>
    /\ Head(inbox[c]).body # Eof
    /\ inbox' = [inbox EXCEPT ![c] = SubSeq(@, 1, Len(@) - 1)]
    /\ UNCHANGED sentHist
    /\ LET m == inbox[c][Len(inbox[c])]
           r == parseRequest(m.body)
       IN  IF IsFault(r)
             THEN /\ hpc' = [hpc EXCEPT ![c] = "closed"]
                  /\ UNCHANGED <<thread_count, accVars, req, resp, nReqs, nEarn,
                                 seen, after, hist, poolVars>>
                  /\ UNCHANGED <<wireVars, clientVars, procVars, sigVars, mainVars, storeVars,
                                 recvHist, nSent, lateDispatched, servedBy>>
             ELSE /\ lateDispatched' = (lateDispatched \/ m.late)
                  /\ UNCHANGED servedBy
                  /\ CASE kind = "finance" ->
                            /\ Receive(c, BankReq(r))
                            /\ recvHist' = [recvHist EXCEPT
                                               ![c] = Append(@, BankReq(r))]
                       [] kind = "file" -> FReceive(c, r)
                       [] kind = "logging" -> LReceive(c, r)

\* receive_request, lines 254-268, on the oldest body of the inbox of c:
\* parseRequest may throw, which the catch of handle_client turns into
\* running = false; otherwise the handler of the server's kind goes on.
HRecvBody(c) ==
    /\ hpc[c] = "recv"
    /\ inbox[c] # <<>>
    /\ Head(inbox[c]).body # Eof
    /\ inbox' = [inbox EXCEPT ![c] = Tail(@)]
    /\ UNCHANGED sentHist
    /\ LET m == Head(inbox[c])
           r == parseRequest(m.body)
       IN  IF IsFault(r)
             THEN /\ hpc' = [hpc EXCEPT ![c] = "closed"]
                  /\ UNCHANGED <<thread_count, accVars, req, resp, nReqs, nEarn,
                                 seen, after, hist, poolVars>>
                  /\ UNCHANGED <<wireVars, clientVars, procVars, sigVars, mainVars, storeVars,
                                 recvHist, nSent, lateDispatched, servedBy>>
             ELSE /\ lateDispatched' = (lateDispatched \/ m.late)
                  /\ UNCHANGED servedBy
                  /\ CASE kind = "finance" ->
                            /\ Receive(c, BankReq(r))
                            /\ recvHist' = [recvHist EXCEPT
                                               ![c] = Append(@, BankReq(r))]
                       [] kind = "file" -> FReceive(c, r)
                       [] kind = "logging" -> LReceive(c, r)

\* recv returns 0 because the peer closed, or -1 with EINTR because a
\* handler ran on this thread: receive_request throws (lines 257-259).
RecvFails(c) ==
    \/ inbox[c] # <<>> /\ Head(inbox[c]).body = Eof
    \/ interrupted[ConnThread(c)]

(* The bodies the peers send, and the steps of a server process. *)

\* A body whose account field is not a number: std::stoi throws.
BadAccountBody ==
    <<"1", "|", "a", "|", "0", "|", "|">>

FinanceBodies ==
    {RequestBody(Request(DEPOSIT, 0, Scale, <<>>, <<>>)),
     RequestBody(Request(WITHDRAW, 0, Scale, <<>>, <<>>)),
     RequestBody(Request(DEPOSIT, MaxAccounts, Scale, <<>>, <<>>)),
     RequestBody(Request(QUIT, 0, 0, <<>>, <<>>)),
     BadAccountBody}

FileBodies ==
    {RequestBody(Request(UPLOAD_FILE, 0, 0, f, <<"a">>)) : f \in FileNames}
      \cup {RequestBody(Request(DOWNLOAD_FILE, 0, 0, <<"a", ".", "t">>, <<>>)),
             RequestBody(Request(QUIT, 0, 0, <<>>, <<>>)),
             BadAccountBody}

LoggingBodies ==
    {RequestBody(Request(LOGIN, 0, 0, <<>>, <<>>)),
     RequestBody(Request(QUIT, 0, 0, <<>>, <<>>)),
     BadAccountBody}

Bodies ==
    CASE kind = "finance" -> FinanceBodies
      [] kind = "file" -> FileBodies
      [] kind = "logging" -> LoggingBodies

\* The bodies sent to a server whose shutdown is studied: one request that
\* changes what the server stores, QUIT, and a body that does not parse.
LifeBodies ==
    CASE kind = "finance" ->
           {RequestBody(Request(DEPOSIT, 0, Scale, <<>>, <<>>)),
            RequestBody(Request(QUIT, 0, 0, <<>>, <<>>)), BadAccountBody}
      [] kind = "file" ->
           {RequestBody(Request(UPLOAD_FILE, 0, 0, <<"a", ".", "t">>, <<"a">>)),
            RequestBody(Request(QUIT, 0, 0, <<>>, <<>>)), BadAccountBody}
      [] kind = "logging" ->
           {RequestBody(Request(LOGIN, 0, 0, <<>>, <<>>)),
            RequestBody(Request(QUIT, 0, 0, <<>>, <<>>)), BadAccountBody}

\* Bodies sent so far, over all connections.
Sends ==
    Cardinality({<<c, i>> \in Conns \X (1..(MaxSends + 1)) :
                    i <= Len(sentHist[c]) /\ sentHist[c][i] # Eof})

\* Thread t runs the program: the process lives and t is not inside the
\* signal handler.
Runs(t) ==
    ~exited /\ sigPc[t] = "run"

\* The connections made to a server whose shutdown is studied.
SrvConns ==
    1..MaxSrvConns

SrvNext ==
    \/ Runs(MainThread) /\ MainLoopTest
    \/ Runs(MainThread) /\ MainCallAccept
    \/ Runs(MainThread) /\ MainAcceptReturn
    \/ Runs(MainThread) /\ MainAcceptEintr
    \/ Runs(MainThread) /\ MainSubmit
    \/ Runs(MainThread) /\ MainDrain
    \/ Runs(MainThread) /\ MainCleanup
    \/ \E c \in SrvConns : ~exited /\ mainPc # "done" /\ ClientConnect(c)
    \/ \E c \in SrvConns : \E b \in LifeBodies :
          ~exited /\ mainPc # "done" /\ Sends < MaxLifeSends /\ ClientSend(c, b)
    \/ \E c \in SrvConns : ~exited /\ mainPc # "done" /\ ClientClose(c)
    \/ \E c \in SrvConns : Runs(ConnThread(c)) /\ HStart(c)
    \/ \E c \in SrvConns : Runs(ConnThread(c)) /\ HLoopTest(c)
    \/ \E c \in SrvConns :
          Runs(ConnThread(c)) /\ ~interrupted[ConnThread(c)] /\ HRecvBody(c)
    \/ \E c \in SrvConns : Runs(ConnThread(c)) /\ RecvFails(c) /\ HDisconnect(c)
    \/ \E c \in SrvConns : Runs(ConnThread(c)) /\ HCheckActive(c)
    \/ \E c \in SrvConns : Runs(ConnThread(c)) /\ HInitLock(c)
    \/ \E c \in SrvConns : Runs(ConnThread(c)) /\ HInitBody(c)
    \/ \E c \in SrvConns : Runs(ConnThread(c)) /\ HDepLock(c)
    \/ \E c \in SrvConns : Runs(ConnThread(c)) /\ HDepBody(c)
    \/ \E c \in SrvConns : Runs(ConnThread(c)) /\ FilePut(c)
    \/ \E c \in SrvConns : Runs(ConnThread(c)) /\ LogLock(c)
    \/ \E c \in SrvConns : Runs(ConnThread(c)) /\ LogWrite(c)
    \/ \E c \in SrvConns : Runs(ConnThread(c)) /\ LogRespond(c)
    \/ \E c \in SrvConns : Runs(ConnThread(c)) /\ HRespond(c)
    \/ \E t \in Threads : nSignals < MaxSrvSignals /\ Deliver(t)
    \/ \E t \in Threads : SigTest(t)
    \/ \E t \in Threads : SigStore(t)
    \/ \E t \in Threads : SigLogGraceful(t)
    \/ \E t \in Threads : SigLogForced(t)
    \/ \E t \in Threads : SigExit(t)

\* The accept loop of a server whose accept can fail, with peers that
\* connect on conns and close without sending, and SIGINTs.
AcceptStep(conns) ==
    \/ Runs(MainThread) /\ MainLoopTest
    \/ Runs(MainThread) /\ MainCallAccept
    \/ Runs(MainThread) /\ MainAcceptReturn
    \/ Runs(MainThread) /\ MainAcceptEintr
    \/ Runs(MainThread) /\ MainAcceptFails
    \/ Runs(MainThread) /\ MainSubmit
    \/ Runs(MainThread) /\ MainDrain
    \/ Runs(MainThread) /\ MainCleanup
    \/ \E c \in conns : ~exited /\ mainPc # "done" /\ ClientConnect(c)
    \/ \E c \in conns : ~exited /\ mainPc # "done" /\ ClientClose(c)
    \/ \E c \in conns : Runs(ConnThread(c)) /\ HStart(c)
    \/ \E c \in conns : Runs(ConnThread(c)) /\ HLoopTest(c)
    \/ \E c \in conns : Runs(ConnThread(c)) /\ RecvFails(c) /\ HDisconnect(c)
    \/ \E t \in Threads : nSignals < MaxSrvSignals /\ Deliver(t)
    \/ \E t \in Threads : SigTest(t)
    \/ \E t \in Threads : SigStore(t)
    \/ \E t \in Threads : SigLogGraceful(t)
    \/ \E t \in Threads : SigLogForced(t)
    \/ \E t \in Threads : SigExit(t)

AcceptNext ==
    AcceptStep(Conns)

\* The same accept loop with at most MaxSrvConns peers.
AcceptFewNext ==
    AcceptStep(SrvConns)

\* A server serving the connections its pool was handed, with no signal.
ServeNext ==
    \/ \E c \in Conns : \E b \in Bodies : Sends < MaxSends /\ ClientSend(c, b)
    \/ \E c \in Conns : ClientClose(c)
    \/ \E c \in Conns : HStart(c)
    \/ \E c \in Conns : HLoopTest(c)
    \/ \E c \in Conns : HRecvBody(c)
    \/ \E c \in Conns : RecvFails(c) /\ HDisconnect(c)
    \/ \E c \in Conns : HCheckActive(c)
    \/ \E c \in Conns : HInitLock(c)
    \/ \E c \in Conns : HInitBody(c)
    \/ \E c \in Conns : HDepLock(c)
    \/ \E c \in Conns : HDepBody(c)
    \/ \E c \in Conns : HWdLock(c)
    \/ \E c \in Conns : HWdCmp(c)
    \/ \E c \in Conns : HWdUpd(c)
    \/ \E c \in Conns : FilePut(c)
    \/ \E c \in Conns : FileGet(c)
    \/ \E c \in Conns : LogLock(c)
    \/ \E c \in Conns : LogWrite(c)
    \/ \E c \in Conns : LogRespond(c)
    \/ \E c \in Conns : HRespond(c)

(* ---------------------------- specifications -------------------------- *)

\* ---------------------------------------------------------------------
\* The interactive client (client.cpp): one thread, MainThread.  Its menu
\* loop reads a choice and runs a transaction between block_signals and
\* unblock_signals; the transaction is retry_operation around a closure.
\* ---------------------------------------------------------------------

\* The menu operations that run a closure under retry_operation, of which
\* the model keeps login, deposit, upload and logout (withdraw, balance,
\* download and interest are built like deposit and upload).
Ops ==
    {"login", "deposit", "upload", "logout"}

\* What a menu choice leads to: an operation, case 8 and the default print,
\* case 0 leaves the loop.
Choices ==
    Ops \cup {"status", "exit"}

\* The server whose channel the closure of an operation tests and uses.
ServerOf(o) ==
    CASE o = "deposit" -> "finance"
      [] o = "upload" -> "file"
      [] OTHER -> "logging"

\* The type of the request the closure of an operation builds.
TypeOf(o) ==
    CASE o = "login" -> LOGIN
      [] o = "deposit" -> DEPOSIT
      [] o = "upload" -> UPLOAD_FILE
      [] OTHER -> LOGOUT

\* What the user can type at "Operation failed. Retry? (y/n): ".
Answers ==
    {"y", "Y", "n"}

\* tolower on the characters of Answers.
ToLower(ch) ==
    IF ch = "Y" THEN "y" ELSE ch

\* The values of --max-retries: atoi(optarg), default 3.
RetryOptions ==
    (0 - 1) .. MaxRetries

\* main up to the menu loop and the locals of retry_operation before it is
\* called, for a client whose channel pointers are as in pointers.
ClientStart(options, listening, pointers) ==
    /\ channel \in pointers
    /\ reachable \in listening
    /\ current_user = 0 - 1
    /\ op = "none"
    /\ clientSent = {}
    /\ cpc = "loop"
    /\ running = TRUE
    /\ sigBlocked = FALSE
    /\ sigPending = FALSE
    /\ max_retries \in options
    /\ retries = 0
    /\ success = FALSE
    /\ retry = "n"
    /\ attempts = 0
    /\ reported = FALSE
    /\ answer = "none"
    /\ sentInWindow = FALSE
    /\ sentSinceFail = FALSE
    /\ lateAttempt = FALSE

\* main as it is: the channel pointers stay nullptr, so a closure only
\* returns.
ClientInit(options, listening) ==
    ClientStart(options, listening, {[s \in ServerKinds |-> FALSE]})

\* The client's own code runs: the process lives, no handler is on its
\* thread, and no unblocked SIGINT is waiting to be delivered first.
CRuns ==
    /\ ~exited
    /\ sigPc[MainThread] = "run"
    /\ ~(sigPending /\ ~sigBlocked)

\* kill(pid, SIGINT): the signal is held pending while SIGINT is in the mask
\* or its handler is running (several pending SIGINTs are one), otherwise
\* the handler starts at once and a blocking read of cin is cut short.
CSigSend ==
    /\ ~exited
    /\ cpc # "done"
    /\ nSignals < MaxClientSignals
    /\ nSignals' = nSignals + 1
    /\ sentInWindow' = (sentInWindow \/ sigBlocked)
    /\ sentSinceFail' = (sentSinceFail \/
                         (/\ cpc \in {"r_after", "r_prompt", "r_while"}
                          /\ attempts >= 1
                          /\ ~success))
    /\ IF sigBlocked \/ sigPc[MainThread] # "run"
          THEN /\ sigPending' = TRUE
               /\ UNCHANGED <<sigPc, interrupted>>
          ELSE /\ sigPc' = [sigPc EXCEPT ![MainThread] = "test"]
               /\ interrupted' = [interrupted EXCEPT
                                     ![MainThread] = @ \/ cpc = "read"]
               /\ UNCHANGED sigPending
    /\ UNCHANGED <<cpc, running, sigBlocked, max_retries, retries, success,
                   retry, attempts, reported, answer, lateAttempt>>
    /\ UNCHANGED <<shutdown_requested, signalsLog, exited, wasSet>>
    /\ UNCHANGED sessVars
    /\ UNCHANGED <<poolVars, finVars, wireVars, srvVars, procVars>>

\* A SIGINT that became pending while the handler ran is delivered when
\* the handler returns.
CDeliverPending ==
    /\ ~exited
    /\ sigPending
    /\ ~sigBlocked
    /\ sigPc[MainThread] = "run"
    /\ sigPending' = FALSE
    /\ sigPc' = [sigPc EXCEPT ![MainThread] = "test"]
    /\ interrupted' = [interrupted EXCEPT ![MainThread] = @ \/ cpc = "read"]
    /\ UNCHANGED <<cpc, running, sigBlocked, max_retries, retries, success,
                   retry, attempts, reported, answer, sentInWindow,
                   sentSinceFail, lateAttempt>>
    /\ UNCHANGED <<shutdown_requested, signalsLog, nSignals, exited, wasSet>>
    /\ UNCHANGED sessVars
    /\ UNCHANGED <<poolVars, finVars, wireVars, srvVars, procVars>>

\* A step of main or retry_operation that only moves and assigns locals.
CStep(from, to) ==
    /\ cpc = from
    /\ cpc' = to
    /\ UNCHANGED <<sigBlocked, sigPending, max_retries, sentInWindow,
                   sentSinceFail, channel, reachable>>
    /\ UNCHANGED <<poolVars, finVars, wireVars, srvVars, procVars>>

\* while (running && !shutdown_requested), then the shutdown sequence.
CLoopTest ==
    /\ CStep("loop", IF running /\ ~shutdown_requested
                        THEN "read" ELSE "shutdown")
    /\ UNCHANGED <<running, retries, success, retry, attempts, reported,
                   answer, lateAttempt>>
    /\ UNCHANGED sigVars
    /\ UNCHANGED <<current_user, op, clientSent>>

\* cin >> choice succeeds; a read cut short by a handler does not.
CReadChoice ==
    /\ ~interrupted[MainThread]
    /\ CStep("read", "check")
    /\ UNCHANGED <<running, retries, success, retry, attempts, reported,
                   answer, lateAttempt>>
    /\ UNCHANGED sigVars
    /\ UNCHANGED <<current_user, op, clientSent>>

\* cin >> choice fails: break if shutdown was requested, else continue.
CReadFail ==
    /\ CStep("read", IF shutdown_requested THEN "shutdown" ELSE "loop")
    /\ interrupted' = [interrupted EXCEPT ![MainThread] = FALSE]
    /\ UNCHANGED <<running, retries, success, retry, attempts, reported,
                   answer, lateAttempt>>
    /\ UNCHANGED <<shutdown_requested, sigPc, signalsLog, nSignals, exited,
                   wasSet>>
    /\ UNCHANGED <<current_user, op, clientSent>>

\* An operation of the menu gets as far as its transaction: login when
\* nobody is logged in, the others when somebody is.
Admitted(ch) ==
    /\ ch \in Ops
    /\ (ch = "login") = (current_user = 0 - 1)

\* The check before processing and the switch on the choice.  Login reads
\* the user id into current_user before its transaction.
CCheck(ch) ==
    /\ CStep("check", IF shutdown_requested THEN "shutdown"
                      ELSE IF Admitted(ch) THEN "block" ELSE "loop")
    /\ running' = IF ~shutdown_requested /\ ch = "exit" THEN FALSE
                  ELSE running
    /\ IF ~shutdown_requested /\ Admitted(ch)
          THEN /\ op' = ch
               /\ current_user' = IF ch = "login" THEN 1 ELSE current_user
          ELSE UNCHANGED <<op, current_user>>
    /\ UNCHANGED clientSent
    /\ UNCHANGED <<retries, success, retry, attempts, reported, answer,
                   lateAttempt>>
    /\ UNCHANGED sigVars

\* block_signals, then the call of retry_operation: retries = 0 and
\* success = false.
CBlock ==
    /\ CRuns
    /\ cpc = "block"
    /\ cpc' = "r_while"
    /\ sigBlocked' = TRUE
    /\ retries' = 0
    /\ success' = FALSE
    /\ attempts' = 0
    /\ reported' = FALSE
    /\ answer' = "none"
    /\ sentSinceFail' = FALSE
    /\ UNCHANGED <<running, sigPending, max_retries, retry, sentInWindow,
                   lateAttempt>>
    /\ UNCHANGED sigVars
    /\ UNCHANGED <<poolVars, finVars, wireVars, srvVars, procVars>>
    /\ UNCHANGED sessVars

\* while (!success && retries < max_retries && !shutdown_requested).
CRetryTest ==
    /\ CStep("r_while", IF ~success /\ retries < max_retries
                           /\ ~shutdown_requested
                           THEN "r_op" ELSE "unblock")
    /\ UNCHANGED <<running, retries, success, retry, attempts, reported,
                   answer, lateAttempt>>
    /\ UNCHANGED sigVars
    /\ UNCHANGED <<current_user, op, clientSent>>

\* How a closure ends: at its null test, in the handler of its try block,
\* with a response that says failure, or with one that says success.
Outcomes ==
    {"null", "thrown", "refused", "ok"}

\* The operations whose closure sends an audit request to the logging
\* server after a successful response, outside any try block.
Audited ==
    {"deposit", "upload"}

\* success = operation().  A closure first tests its channel pointer:
\* with nullptr it returns false, the logout closure logs out locally and
\* returns true.  With a channel it sends its request: its handler catches
\* what send_request throws and returns false, otherwise the closure
\* returns what the response says (logout: true in every case, and
\* nobody is logged in afterwards).  The login closure sets current_user
\* to -1 only when the response says failure.  Here the audit request, if
\* one is sent, comes back.
CRunOperation(outcome) ==
    /\ CStep("r_op", "r_after")
    /\ (outcome = "null") = ~channel[ServerOf(op)]
    /\ clientSent' = clientSent
          \cup (IF outcome = "null" THEN {}
                ELSE {<<ServerOf(op), TypeOf(op)>>})
          \cup (IF outcome = "ok" /\ op \in Audited /\ channel["logging"]
                  THEN {<<"logging", TypeOf(op)>>} ELSE {})
    /\ current_user' = IF op = "logout" \/ (op = "login" /\ outcome = "refused")
                          THEN 0 - 1 ELSE current_user
    /\ success' = (op = "logout" \/ outcome = "ok")
    /\ attempts' = attempts + 1
    /\ lateAttempt' = (lateAttempt \/ sentSinceFail)
    /\ UNCHANGED op
    /\ UNCHANGED <<running, retries, retry, reported, answer>>
    /\ UNCHANGED sigVars

\* operation() of deposit or upload: the response says success and the
\* send_request of the audit request throws.  No try block encloses it in
\* the closure or in retry_operation, so the exception leaves both, skips
\* unblock_signals and is caught at the end of the loop body (line 662).
CRaise ==
    /\ CStep("r_op", "loop")
    /\ op \in Audited
    /\ channel[ServerOf(op)]
    /\ channel["logging"]
    /\ clientSent' = clientSent \cup {<<ServerOf(op), TypeOf(op)>>}
    /\ attempts' = attempts + 1
    /\ lateAttempt' = (lateAttempt \/ sentSinceFail)
    /\ UNCHANGED <<current_user, op>>
    /\ UNCHANGED <<running, retries, success, retry, reported, answer>>
    /\ UNCHANGED sigVars

\* if (!success && !shutdown_requested): retries++, then the prompt or
\* "Maximum retry attempts reached.".
CAfter ==
    /\ IF ~success /\ ~shutdown_requested
          THEN /\ retries' = retries + 1
               /\ IF retries + 1 < max_retries
                     THEN CStep("r_after", "r_prompt") /\ UNCHANGED reported
                     ELSE CStep("r_after", "r_while") /\ reported' = TRUE
          ELSE /\ CStep("r_after", "r_while")
               /\ UNCHANGED <<retries, reported>>
    /\ UNCHANGED <<running, success, retry, attempts, answer, lateAttempt>>
    /\ UNCHANGED sigVars
    /\ UNCHANGED <<current_user, op, clientSent>>

\* char retry; cin >> retry; if (tolower(retry) != 'y') break.  When the
\* read fails (a = "eof": cin is at its end) retry keeps the
\* indeterminate value it was declared with.
CPromptIgnoresAnswer(a) ==
    /\ CStep("r_prompt", "r_while")
    /\ a \in Answers
    /\ retry' = a
    /\ answer' = a
    /\ UNCHANGED <<running, retries, success, attempts, reported,
                   lateAttempt>>
    /\ UNCHANGED sigVars
    /\ UNCHANGED <<current_user, op, clientSent>>

CPrompt(a) ==
    /\ \E ch \in (IF a = "eof" THEN Answers ELSE {a}) :
          /\ retry' = ch
          /\ CStep("r_prompt", IF ToLower(ch) # "y"
                                  THEN "unblock" ELSE "r_while")
    /\ answer' = a
    /\ UNCHANGED <<running, retries, success, attempts, reported,
                   lateAttempt>>
    /\ UNCHANGED sigVars
    /\ UNCHANGED <<current_user, op, clientSent>>

\* unblock_signals: sigprocmask(SIG_UNBLOCK) takes SIGINT out of the mask
\* and a pending SIGINT is delivered before it returns.
CUnblockDiscards ==
    /\ CRuns
    /\ cpc = "unblock"
    /\ cpc' = "loop"
    /\ sigBlocked' = FALSE
    /\ sigPending' = FALSE
    /\ UNCHANGED <<running, max_retries, retries, success, retry, attempts,
                   reported, answer, sentInWindow, sentSinceFail,
                   lateAttempt>>
    /\ UNCHANGED sigVars
    /\ UNCHANGED <<poolVars, finVars, wireVars, srvVars, procVars>>
    /\ UNCHANGED sessVars

CUnblock ==
    /\ ~exited
    /\ sigPc[MainThread] = "run"
    /\ cpc = "unblock"
    /\ cpc' = "loop"
    /\ sigBlocked' = FALSE
    /\ sigPending' = FALSE
    /\ sigPc' = [sigPc EXCEPT ![MainThread] = IF sigPending THEN "test"
                                              ELSE @]
    /\ UNCHANGED <<running, max_retries, retries, success, retry, attempts,
                   reported, answer, sentInWindow, sentSinceFail,
                   lateAttempt>>
    /\ UNCHANGED <<shutdown_requested, signalsLog, nSignals, exited, wasSet,
                   interrupted>>
    /\ UNCHANGED <<poolVars, finVars, wireVars, srvVars, procVars>>
    /\ UNCHANGED sessVars

\* The shutdown sequence after the menu loop, to return 0: QUIT goes to
\* each server whose channel pointer is not nullptr, a failed send is
\* caught, and the channels are deleted.
CShutdown ==
    /\ CStep("shutdown", "done")
    /\ clientSent' = clientSent \cup
                        {<<s, QUIT>> : s \in {k \in ServerKinds : channel[k]}}
    /\ UNCHANGED <<current_user, op>>
    /\ UNCHANGED <<running, retries, success, retry, attempts, reported,
                   answer, lateAttempt>>
    /\ UNCHANGED sigVars

ClientNext ==
    \/ CSigSend
    \/ CDeliverPending
    \/ SigTest(MainThread)
    \/ SigStore(MainThread)
    \/ SigLogGraceful(MainThread)
    \/ SigLogForced(MainThread)
    \/ SigExit(MainThread)
    \/ CRuns /\ CLoopTest
    \/ CRuns /\ CReadChoice
    \/ CRuns /\ CReadFail
    \/ \E ch \in Choices : CRuns /\ CCheck(ch)
    \/ CBlock
    \/ CRuns /\ CRetryTest
    \/ \E outcome \in Outcomes : CRuns /\ CRunOperation(outcome)
    \/ CRuns /\ CAfter
    \/ \E a \in Answers \cup {"eof"} : CRuns /\ CPrompt(a)
    \/ CUnblock
    \/ CRuns /\ CShutdown

(* ------------ the signal coordinator: allocator and alarm ------------- *)

Pids ==
    1..MaxChildren

ServerNames ==
    {"finance", "file"}

\* A ServerProcess that names no child.  The field kid is a ghost: the
\* child the entry was registered for.
NoServer ==
    [pid |-> 0, name |-> "none", active |-> FALSE, kid |-> 0]

timerVars ==
    <<timeout_occurred, alarmArmed, twPc, twResult, alrmPc, nTimed, lateAlarm>>

childVars ==
    <<child_exited, server_processes, children, regPc, regArg, chldPc,
      chldPid, chldKid, owed, activeAnswer, statusOut>>

notProc ==
    <<poolVars, finVars, wireVars, srvVars, clientVars>>

ProcInit ==
    /\ heapLock = 0
    /\ timeout_occurred = FALSE
    /\ alarmArmed = FALSE
    /\ twPc = "idle"
    /\ twResult = "none"
    /\ alrmPc = "run"
    /\ nTimed = 0
    /\ lateAlarm = FALSE
    /\ child_exited = 0
    /\ server_processes = <<>>
    /\ children = <<>>
    /\ regPc = "idle"
    /\ regArg = NoServer
    /\ chldPc = "run"
    /\ chldPid = 0
    /\ chldKid = 0
    /\ owed = {}
    /\ activeAnswer = "none"
    /\ statusOut = <<>>

\* Thread t runs its own code: no handler is running on it.  SIGALRM and
\* SIGCHLD are followed on the main thread.
Ordinary(t) ==
    /\ ~exited
    /\ sigPc[t] = "run"
    /\ t = MainThread => (alrmPc = "run" /\ chldPc = "run")

\* log_signal_event, lines 219-234, called by setup_handlers (line 112) and
\* by unblock_signals (line 180) with every signal unblocked: the
\* std::string concatenation of line 226 enters the allocator, which takes
\* its lock, and leaves it.
CodeMalloc(t) ==
    /\ Ordinary(t)
    /\ heapLock = 0
    /\ heapLock' = t
    /\ UNCHANGED <<timerVars, childVars, sigVars, notProc>>

CodeMallocDone(t) ==
    /\ Ordinary(t)
    /\ heapLock = t
    /\ heapLock' = 0
    /\ UNCHANGED <<timerVars, childVars, sigVars, notProc>>

\* What the step a handler takes next from position pc does, by kind:
\* sigint_handler lines 118-129, sigalrm_handler lines 134-136,
\* sigchld_handler lines 143-155.  log_signal_event (lines 219-234) calls
\* localtime, which takes the time-zone lock, and builds std::strings, which
\* allocate; the std::stringstream of line 150 allocates; exit (line 129)
\* flushes the stdio streams.
Performs(pc) ==
    CASE pc = "run" -> {}
      [] pc = "test" -> {"load"}
      [] pc = "store" -> {"store"}
      [] pc = "log" -> {"lock", "allocate", "write"}
      [] pc = "second" -> {"lock", "allocate", "write"}
      [] pc = "exit" -> {"lock", "buffered"}
      [] pc = "alrm_store" -> {"store", "write"}
      [] pc = "alrm_log" -> {"lock", "allocate", "write"}
      [] pc = "chld_wait" -> {"waitpid"}
      [] pc = "chld_count" -> {"increment"}
      [] pc = "chld_scan" -> {"store"}
      [] pc = "chld_log" -> {"lock", "allocate", "write"}

\* The operations that are safe while interrupting arbitrary code.
AsyncSafe ==
    {"load", "store", "increment", "write", "waitpid"}

\* The positions of the handlers running on thread t.
HandlerPcs(t) ==
    {sigPc[t]} \cup (IF t = MainThread THEN {alrmPc, chldPc} ELSE {})

\* A handler on thread t is about to allocate while the code it interrupted
\* on that thread is inside the allocator: the handler waits for a lock
\* that only the interrupted code can release.
Blocked(t) ==
    /\ heapLock = t
    /\ \E pc \in HandlerPcs(t) : "allocate" \in Performs(pc)

\* A caller of a timed operation may start one.
MayStart ==
    /\ Ordinary(MainThread)
    /\ twPc = "idle"
    /\ nTimed < MaxTimed

TimerStep(from, to) ==
    /\ Ordinary(MainThread)
    /\ twPc = from
    /\ twPc' = to
    /\ UNCHANGED <<heapLock, alrmPc, lateAlarm, childVars, sigVars, notProc>>

\* execute_with_timeout, line 50: timeout_occurred = false.
EwClear ==
    /\ MayStart
    /\ TimerStep("idle", "ew_arm")
    /\ timeout_occurred' = FALSE
    /\ nTimed' = nTimed + 1
    /\ UNCHANGED <<alarmArmed, twResult>>

\* execute_with_timeout, line 53: alarm(timeout_seconds).
EwArm ==
    /\ TimerStep("ew_arm", "ew_op")
    /\ alarmArmed' = TRUE
    /\ UNCHANGED <<timeout_occurred, twResult, nTimed>>

\* execute_with_timeout, line 55: operation() returns result.
EwOperationReturns(result) ==
    /\ TimerStep("ew_op", "ew_cancel")
    /\ twResult' = (IF result THEN "true" ELSE "false")
    /\ UNCHANGED <<timeout_occurred, alarmArmed, nTimed>>

\* execute_with_timeout, line 55: operation() throws; no handler encloses
\* the call, so lines 58-59 are skipped and the exception reaches the caller.
EwOperationThrows ==
    /\ TimerStep("ew_op", "idle")
    /\ twResult' = "thrown"
    /\ UNCHANGED <<timeout_occurred, alarmArmed, nTimed>>

\* execute_with_timeout, line 58: alarm(0).
EwCancel ==
    /\ TimerStep("ew_cancel", "ew_return")
    /\ alarmArmed' = FALSE
    /\ UNCHANGED <<timeout_occurred, twResult, nTimed>>

\* execute_with_timeout, line 59: return result && !timeout_occurred.
EwReturn ==
    /\ TimerStep("ew_return", "idle")
    /\ twResult' = (IF twResult = "true" /\ ~timeout_occurred THEN "true" ELSE "false")
    /\ UNCHANGED <<timeout_occurred, alarmArmed, nTimed>>

\* wait_with_timeout, line 186: timeout_occurred = false.
WwClear ==
    /\ MayStart
    /\ TimerStep("idle", "ww_arm")
    /\ timeout_occurred' = FALSE
    /\ nTimed' = nTimed + 1
    /\ UNCHANGED <<alarmArmed, twResult>>

\* wait_with_timeout, lines 187-188: alarm(seconds); return true.  The
\* caller's bounded wait follows.
WwArm ==
    /\ TimerStep("ww_arm", "ww_wait")
    /\ alarmArmed' = TRUE
    /\ UNCHANGED <<timeout_occurred, twResult, nTimed>>

\* cancel_timeout, line 192: alarm(0), called when the caller's wait ends.
CancelTimeout ==
    /\ TimerStep("ww_wait", "idle")
    /\ alarmArmed' = FALSE
    /\ UNCHANGED <<timeout_occurred, twResult, nTimed>>

\* The timer expires: the kernel delivers SIGALRM and sigalrm_handler
\* starts on the main thread.
AlarmFires ==
    /\ Ordinary(MainThread)
    /\ alarmArmed
    /\ alarmArmed' = FALSE
    /\ alrmPc' = "alrm_store"
    /\ lateAlarm' = (lateAlarm \/ twPc = "idle")
    /\ UNCHANGED <<timeout_occurred, twPc, twResult, nTimed>>
    /\ UNCHANGED <<heapLock, childVars, sigVars, notProc>>

\* sigalrm_handler, lines 134-135: timeout_occurred = true and the notice.
AlrmStore ==
    /\ ~exited
    /\ alrmPc = "alrm_store"
    /\ timeout_occurred' = TRUE
    /\ alrmPc' = "alrm_log"
    /\ UNCHANGED <<alarmArmed, twPc, twResult, nTimed, lateAlarm>>
    /\ UNCHANGED <<heapLock, childVars, sigVars, notProc>>

AlarmRecord ==
    "SIGALRM received - operation timed out"

\* sigalrm_handler, line 136: log_signal_event, which allocates.
AlrmLog ==
    /\ ~exited
    /\ alrmPc = "alrm_log"
    /\ heapLock = 0
    /\ signalsLog' = Append(signalsLog, AlarmRecord)
    /\ alrmPc' = "run"
    /\ UNCHANGED <<shutdown_requested, sigPc, nSignals, exited, wasSet, interrupted>>
    /\ UNCHANGED <<timeout_occurred, alarmArmed, twPc, twResult, nTimed, lateAlarm>>
    /\ UNCHANGED <<heapLock, childVars, notProc>>

\* A process that logs from its own code, is sent SIGINTs and runs timed
\* operations.  One handler at a time is followed on a thread.
AsyncNext ==
    \/ \E t \in Threads : CodeMalloc(t)
    \/ \E t \in Threads : CodeMallocDone(t)
    \/ \E t \in Threads : Ordinary(t) /\ Deliver(t)
    \/ \E t \in Threads : SigTest(t)
    \/ \E t \in Threads : SigStore(t)
    \/ \E t \in Threads : SigLogGraceful(t)
    \/ \E t \in Threads : SigLogForced(t)
    \/ \E t \in Threads : SigExit(t)
    \/ EwClear
    \/ EwArm
    \/ \E result \in BOOLEAN : EwOperationReturns(result)
    \/ EwOperationThrows
    \/ EwCancel
    \/ EwReturn
    \/ WwClear
    \/ WwArm
    \/ CancelTimeout
    \/ AlarmFires
    \/ AlrmStore
    \/ AlrmLog

(* --------- the signal coordinator: the registry of child servers ------- *)

\* The children that have terminated and were not waited for.
Zombies ==
    {k \in 1..Len(children) : children[k].state = "zombie"}

\* The pids the kernel may give to a new child: those of no child that is
\* running or waits to be reaped.
FreePids ==
    {p \in Pids : \A k \in 1..Len(children) :
                      children[k].pid = p => children[k].state = "reaped"}

\* The first of the registry entries hits, 0 when there is none: the
\* range-for of line 146 with its break, and std::find_if of line 204.
FirstEntry(hits) ==
    IF hits = {} THEN 0 ELSE CHOOSE i \in hits : \A j \in hits : i <= j

\* std::vector doubles its capacity: push_back on a vector of n elements
\* moves the elements to a new block when n is 0 or a power of two.
Reallocates(n) ==
    n \in {0, 1, 2, 4, 8, 16}

ChildStep(from, to) ==
    /\ ~exited
    /\ chldPc = from
    /\ chldPc' = to
    /\ UNCHANGED <<regPc, regArg, activeAnswer, statusOut>>
    /\ UNCHANGED <<heapLock, timerVars, notProc>>

CodeStep ==
    /\ Ordinary(MainThread)
    /\ UNCHANGED <<child_exited, chldPc, chldPid, chldKid, owed>>
    /\ UNCHANGED <<heapLock, timerVars, sigVars, notProc>>

\* The caller of register_server: fork returns pid p in the parent, and
\* register_server(p, name) is the next call.
Fork(p, name) ==
    /\ CodeStep
    /\ regPc = "idle"
    /\ Len(children) < MaxForks
    /\ p \in FreePids
    /\ children' = Append(children, [pid |-> p, state |-> "live"])
    /\ regArg' = [pid |-> p, name |-> name, active |-> TRUE,
                  kid |-> Len(children) + 1]
    /\ regPc' = "call"
    /\ UNCHANGED <<server_processes, activeAnswer, statusOut>>

\* A child terminates; the kernel keeps it until the parent waits for it.
ChildExits(k) ==
    /\ ~exited
    /\ k \in 1..Len(children)
    /\ children[k].state = "live"
    /\ children' = [children EXCEPT ![k].state = "zombie"]
    /\ UNCHANGED <<child_exited, server_processes, regPc, regArg, chldPc,
                   chldPid, chldKid, owed, activeAnswer, statusOut>>
    /\ UNCHANGED <<heapLock, timerVars, sigVars, notProc>>

\* register_server, line 196: push_back has built the new element, and the
\* new block when the vector grows; begin() and end() still give the old one.
RegPush ==
    /\ CodeStep
    /\ regPc = "call"
    /\ regPc' = "push"
    /\ UNCHANGED <<server_processes, children, regArg, activeAnswer, statusOut>>

\* register_server, lines 196-200: push_back publishes the vector with the
\* new entry at its end; the record of the registration is logged.
RegPublish ==
    /\ CodeStep
    /\ regPc = "push"
    /\ heapLock = 0
    /\ server_processes' = Append(server_processes, regArg)
    /\ regArg' = NoServer
    /\ regPc' = "idle"
    /\ UNCHANGED <<children, activeAnswer, statusOut>>

\* is_server_active, lines 203-208.
IsServerActive(name) ==
    /\ CodeStep
    /\ regPc = "idle"
    /\ LET it == FirstEntry({i \in 1..Len(server_processes) :
                                 server_processes[i].name = name})
       IN  activeAnswer' = (IF it # 0 /\ server_processes[it].active
                              THEN "true" ELSE "false")
    /\ UNCHANGED <<server_processes, children, regPc, regArg, statusOut>>

\* print_server_status, lines 210-217: one line for every entry.
PrintServerStatus ==
    /\ CodeStep
    /\ regPc = "idle"
    /\ statusOut' = [i \in 1..Len(server_processes) |->
                        <<server_processes[i].name, server_processes[i].pid,
                          IF server_processes[i].active THEN "ACTIVE"
                                                        ELSE "TERMINATED">>]
    /\ UNCHANGED <<server_processes, children, regPc, regArg, activeAnswer>>

\* A child has terminated: the kernel delivers SIGCHLD and sigchld_handler
\* starts on the main thread, whatever that thread is doing.
ChldDeliver ==
    /\ Ordinary(MainThread)
    /\ Zombies # {}
    /\ ChildStep("run", "chld_wait")
    /\ UNCHANGED <<child_exited, server_processes, children, chldPid, chldKid, owed>>
    /\ UNCHANGED sigVars

\* sigchld_handler, line 143: waitpid(-1, &status, WNOHANG) reaps a child
\* that has terminated and returns its pid.
ChldReap(k) ==
    /\ k \in Zombies
    /\ ChildStep("chld_wait", "chld_count")
    /\ children' = [children EXCEPT ![k].state = "reaped"]
    /\ chldPid' = children[k].pid
    /\ chldKid' = k
    /\ UNCHANGED <<child_exited, server_processes, owed>>
    /\ UNCHANGED sigVars

\* sigchld_handler, line 143: waitpid finds no such child and the handler
\* returns.
ChldReturn ==
    /\ Zombies = {}
    /\ ChildStep("chld_wait", "run")
    /\ UNCHANGED <<child_exited, server_processes, children, chldPid, chldKid, owed>>
    /\ UNCHANGED sigVars

\* sigchld_handler, line 144: child_exited++.
ChldCount ==
    /\ ChildStep("chld_count", "chld_scan")
    /\ child_exited' = child_exited + 1
    /\ UNCHANGED <<server_processes, children, chldPid, chldKid, owed>>
    /\ UNCHANGED sigVars

\* The entries the handler's loop can see that were registered for the
\* child it has just reaped.
EntriesOfKid ==
    {i \in 1..Len(server_processes) : server_processes[i].kid = chldKid}

\* sigchld_handler, lines 147-149: the loop stops at the first entry with
\* the pid and stores false in its active field.  When the handler has
\* interrupted a push_back that moves the elements, the loop runs over the
\* old block while the vector is being modified, which is undefined: the
\* store reaches the entry that will be published, or only its old copy.
ChldScan(reaches) ==
    /\ LET i == FirstEntry({j \in 1..Len(server_processes) :
                                server_processes[j].pid = chldPid})
       IN  /\ ChildStep("chld_scan", IF i = 0 THEN "chld_wait" ELSE "chld_log")
           /\ ~reaches => (i # 0 /\ regPc = "push"
                              /\ Reallocates(Len(server_processes)))
           /\ server_processes' =
                 IF i # 0 /\ reaches
                   THEN [server_processes EXCEPT ![i].active = FALSE]
                   ELSE server_processes
    /\ owed' = owed \cup EntriesOfKid
    /\ UNCHANGED <<child_exited, children, chldPid, chldKid>>
    /\ UNCHANGED sigVars

ChildRecord ==
    "Child process terminated"

\* sigchld_handler, lines 150-154: the std::stringstream and
\* log_signal_event allocate; break leaves the for loop and waitpid is
\* called again.
ChldLog ==
    /\ ChildStep("chld_log", "chld_wait")
    /\ heapLock = 0
    /\ signalsLog' = Append(signalsLog, ChildRecord)
    /\ UNCHANGED <<shutdown_requested, sigPc, nSignals, exited, wasSet, interrupted>>
    /\ UNCHANGED <<child_exited, server_processes, children, chldPid, chldKid, owed>>

\* A process that forks servers, registers them and asks for their status
\* while they terminate.
ChildNext ==
    \/ \E p \in Pids, name \in ServerNames : Fork(p, name)
    \/ \E k \in 1..MaxForks : ChildExits(k)
    \/ RegPush
    \/ RegPublish
    \/ \E name \in ServerNames : IsServerActive(name)
    \/ PrintServerStatus
    \/ ChldDeliver
    \/ \E k \in 1..MaxForks : ChldReap(k)
    \/ ChldReturn
    \/ ChldCount
    \/ \E reaches \in BOOLEAN : ChldScan(reaches)
    \/ ChldLog

Init ==
    /\ PoolInit
    /\ FinInit
    /\ SrvInit({"finance"})
    /\ WireInit
    /\ ClientInit({MaxRetries}, {ServerKinds})
    /\ SigInit
    /\ ProcInit

\* The finance server is not serving: its pool has no thread.
IdleInit ==
    Init /\ thread_count = 0

PoolStep(maxTasks) ==
    \/ \E n \in 0..MaxWorkers : Construct(1, n) /\ UNCHANGED notPool
    \/ \E w \in WorkerIds : WLock(1, w)
    \/ \E w \in WorkerIds : WCheck(1, w)
    \/ \E w \in WorkerIds : WInc(1, w)
    \/ \E w \in WorkerIds : TaskBegin(1, w)
    \/ \E w \in WorkerIds : TaskEnd(1, w)
    \/ \E w \in WorkerIds : WDec(1, w)
    \/ \E w \in WorkerIds : WNotify(1, w)
    \/ \E w \in WorkerIds : SpuriousWake(1, w)
    \/ (nextTask[1] < maxTasks /\ EnqLock(1))
    \/ EnqPush(1)
    \/ EnqNotify(1)
    \/ DStart(1)
    \/ DLock(1)
    \/ DCheck(1)
    \/ DBlock(1)
    \/ DSpuriousWake(1)
    \/ DNotify(1)
    \/ DJoin(1)
    \/ DReturn(1)

PoolNext ==
    PoolStep(MaxTasks)

PoolSpec ==
    IdleInit /\ [][PoolNext]_vars

PoolFairNext ==
    PoolStep(MaxFairTasks)

\* The steps of worker w that need no lock: at most one is enabled at a time.
WorkerRuns(w) ==
    \/ WCheck(1, w)
    \/ WInc(1, w)
    \/ TaskBegin(1, w)
    \/ TaskEnd(1, w)
    \/ WDec(1, w)
    \/ WNotify(1, w)

\* The steps of the owner inside enqueue and inside the destructor's
\* critical section.
OwnerRuns ==
    \/ EnqPush(1)
    \/ EnqNotify(1)
    \/ DCheck(1)
    \/ DBlock(1)

\* Scheduling assumed for liveness: every thread that can take a step keeps
\* running (weak fairness of the steps of the worker loop, of enqueue and of
\* the destructor's critical section; running tasks return), and a thread
\* that keeps asking for queueMutex gets it (strong fairness of the lock
\* step).  Nothing is assumed about spurious wake-ups, about the owner
\* calling enqueue or the destructor, or about the destructor's wait.
PoolFairness ==
    /\ \A w \in WorkerIds : SF_vars(WLock(1, w)) /\ WF_vars(WorkerRuns(w))
    /\ WF_vars(OwnerRuns)

PoolFairSpec ==
    IdleInit /\ [][PoolFairNext]_vars /\ PoolFairness

\* The steps of the owner inside ~ThreadPool that need no lock.
DestructorRuns ==
    \/ DNotify(1)
    \/ DJoin(1)
    \/ DReturn(1)

\* Scheduling assumed for the liveness of ~ThreadPool: that of PoolFairness,
\* and the owner inside the destructor keeps running and gets queueMutex
\* when it keeps asking for it.  A thread blocked in condition.wait is
\* not assumed to wake without a notify.
ShutdownFairness ==
    /\ PoolFairness
    /\ SF_vars(DLock(1))
    /\ WF_vars(DestructorRuns)

ShutdownFairSpec ==
    IdleInit /\ [][PoolFairNext]_vars /\ ShutdownFairness

FinSpec ==
    Init /\ [][FinNext]_vars

EarnSpec ==
    Init /\ [][EarnNext]_vars

\* The finance server with at least one thread in its pool.
SignedInit ==
    Init /\ thread_count >= 1

SignedSpec ==
    SignedInit /\ [][SignedNext]_vars

\* The steps of the thread serving connection c that need no lock,
\* receive_request apart: at most one is enabled at a time.
HandlerRuns(c) ==
    \/ HStart(c)
    \/ HLoopTest(c)
    \/ HCheckActive(c)
    \/ HInitBody(c)
    \/ HDepBody(c)
    \/ HEarnNew(c)
    \/ HEarnDone(c)
    \/ HRespond(c)
    \/ (hpc[c] = "earn" /\ EnqPush(c))
    \/ (hpc[c] = "earn" /\ EnqNotify(c))
    \/ (hpc[c] = "earn" /\ EarnLoopDone(c) /\ DStart(c))
    \/ (hpc[c] = "earn" /\ DCheck(c))
    \/ (hpc[c] = "earn" /\ DBlock(c))
    \/ (hpc[c] = "earn" /\ DNotify(c))
    \/ (hpc[c] = "earn" /\ DJoin(c))
    \/ (hpc[c] = "earn" /\ DReturn(c))

\* The steps of that thread that take a mutex.
HandlerLocks(c) ==
    \/ HInitLock(c)
    \/ HDepLock(c)
    \/ (hpc[c] = "earn" /\ ~EarnLoopDone(c) /\ EnqLock(c))
    \/ (hpc[c] = "earn" /\ DLock(c))

\* The steps of worker w of the pool of connection c that need no lock.
EarnWorkerRuns(c, w) ==
    \/ WCheck(c, w)
    \/ WInc(c, w)
    \/ AIBody(c, w)
    \/ WDec(c, w)
    \/ WNotify(c, w)

\* Scheduling assumed for the liveness of EARN_INTEREST: every thread
\* that can take a step keeps running, and a thread that keeps asking for
\* a mutex gets it.  Nothing is assumed about the client sending a
\* request, and a thread blocked in condition.wait is not assumed to wake
\* without a notify.
EarnFairness ==
    /\ WF_vars(HandlerRuns(1))
    /\ SF_vars(HandlerLocks(1))
    /\ \A w \in WorkerIds :
          /\ WF_vars(EarnWorkerRuns(1, w))
          /\ SF_vars(WLock(1, w))
          /\ SF_vars(AILock(1, w))

EarnFairSpec ==
    Init /\ [][EarnOneNext]_vars /\ EarnFairness

WireSpec ==
    IdleInit /\ [][WireNext]_vars

\* A server of any of the three kinds, from before its accept loop, with a
\* worker for every connection.
SrvSpecInit ==
    /\ PoolInit
    /\ FinInitFrom("absent")
    /\ thread_count = MaxWorkers
    /\ SrvInit(ServerKinds)
    /\ WireInit
    /\ ClientInit({MaxRetries}, {ServerKinds})
    /\ SigInit
    /\ ProcInit

SrvSpec ==
    SrvSpecInit /\ [][SrvNext]_vars

\* A server of any of the three kinds whose pool has at least one worker
\* and was handed every connection.
AcceptSpec ==
    SrvSpecInit /\ [][AcceptNext]_vars

\* The steps of main that its own code or a waiting connection enables.
MainRuns ==
    /\ Runs(MainThread)
    /\ \/ MainLoopTest
       \/ MainCallAccept
       \/ MainAcceptReturn
       \/ MainAcceptEintr
       \/ MainSubmit
       \/ MainDrain
       \/ MainCleanup

\* The steps of the worker serving connection c.
HandlerServes(c) ==
    /\ Runs(ConnThread(c))
    /\ \/ HStart(c)
       \/ HLoopTest(c)
       \/ (RecvFails(c) /\ HDisconnect(c))

\* The steps of sigint_handler on thread t.
HandlerReturns(t) ==
    \/ SigTest(t)
    \/ SigStore(t)
    \/ SigLogGraceful(t)
    \/ SigLogForced(t)
    \/ SigExit(t)

\* Scheduling assumed for the liveness of the shutdown: main, the workers
\* and a running signal handler keep running.  Nothing is assumed about
\* the peers (no peer has to connect or to close), about further signals,
\* or about accept failing by itself.
AcceptFairness ==
    /\ WF_vars(MainRuns)
    /\ \A c \in Conns : WF_vars(HandlerServes(c))
    /\ \A t \in Threads : WF_vars(HandlerReturns(t))

AcceptFairSpec ==
    SrvSpecInit /\ [][AcceptFewNext]_vars /\ AcceptFairness

ServeInit ==
    /\ PoolInit
    /\ FinInit
    /\ thread_count >= 1
    /\ SrvInit(ServerKinds)
    /\ WireInit
    /\ ClientInit({MaxRetries}, {ServerKinds})
    /\ SigInit
    /\ ProcInit

ServeSpec ==
    ServeInit /\ [][ServeNext]_vars

ClientInitAll ==
    /\ PoolInit
    /\ FinInit
    /\ SrvInit({"finance"})
    /\ WireInit
    /\ ClientInit(RetryOptions, SUBSET ServerKinds)
    /\ SigInit
    /\ ProcInit

ClientSpec ==
    ClientInitAll /\ [][ClientNext]_vars

\* A client that holds channels: every choice of the three pointers but
\* all nullptr.
ConnectedInit ==
    /\ PoolInit
    /\ FinInit
    /\ SrvInit({"finance"})
    /\ WireInit
    /\ ClientStart({MaxRetries}, {ServerKinds},
                   [ServerKinds -> BOOLEAN] \ {[s \in ServerKinds |-> FALSE]})
    /\ SigInit
    /\ ProcInit

ConnectedNext ==
    \/ ClientNext
    \/ CRuns /\ CRaise

ConnectedSpec ==
    ConnectedInit /\ [][ConnectedNext]_vars

AsyncSpec ==
    IdleInit /\ [][AsyncNext]_vars

ChildSpec ==
    IdleInit /\ [][ChildNext]_vars

SigSpec ==
    IdleInit /\ [][SigNext]_vars

(* ----------------------- the pool: claims ----------------------------- *)

\* C1: when ~ThreadPool has returned, every task enqueued before it was
\* called has finished executing, the queue is empty and every worker
\* thread has returned (was joined); no task is dropped.
C1_DrainedWhenDestructorReturns ==
    \A p \in Pools :
        opc[p] = "d_done" =>
            /\ tasks[p] = <<>>
            /\ \A t \in TaskIds : t < nextTask[p] => endCount[p][t] >= 1
            /\ \A w \in Workers(p) : wpc[p][w] = "exited"

\* C1 witness: the destructor has returned, and when it was called at least
\* two tasks were unfinished, one of them already dequeued by a worker and
\* one still queued.
C1_Witness ==
    /\ opc[1] = "d_done"
    /\ dK[1] >= 2
    /\ dR[1] >= 1
    /\ dR[1] < dK[1]

\* Task t of pool p is held by worker w: popped and task() not yet returned.
Holds(p, w, t) ==
    /\ w \in Workers(p)
    /\ wpc[p][w] \in {"popped", "call", "body"}
    /\ wtask[p][w] = t

\* C2 (safety part): an enqueued task is in the queue, or was popped exactly
\* once and is held by exactly one worker, or was popped exactly once and
\* its body was entered and left exactly once.
C2_ExactlyOnce ==
    \A t \in TaskIds :
        /\ deqCount[1][t] <= 1
        /\ beginCount[1][t] <= deqCount[1][t]
        /\ endCount[1][t] <= beginCount[1][t]
        /\ Cardinality({w \in WorkerIds : Holds(1, w, t)})
              = deqCount[1][t] - endCount[1][t]
        /\ (t < nextTask[1]) =>
              (t \in TasksInQueue(1)) # (deqCount[1][t] = 1)
        /\ (t >= nextTask[1]) => deqCount[1][t] = 0

\* C2: in a pool with n >= 1 workers every enqueued task is popped and run
\* by exactly one worker exactly once, and (running tasks returning) every
\* enqueued task is eventually run: from some point on every task that was
\* enqueued has been run (enqueued and run both stay true once true).
C2_RunExactlyOnceEventually ==
    /\ []C2_ExactlyOnce
    /\ <>[](nw[1] >= 1 =>
              \A t \in TaskIds : t < nextTask[1] => endCount[1][t] = 1)

\* C2 witness: all tasks were enqueued and each one was run once, by two
\* different workers.
C2_Witness ==
    /\ nextTask[1] = MaxFairTasks
    /\ \A t \in TaskIds : t < nextTask[1] => endCount[1][t] = 1
    /\ nw[1] >= 2
    /\ \E w \in Workers(1) : wtask[1][w] # wtask[1][1]

\* C3 as claimed: whenever a task B has been dequeued, every task A whose
\* enqueue completed before B's began has been dequeued and its body has
\* been started.
C3_StartedBeforeNextDequeue ==
    \A a, b \in TaskIds :
        (a < b /\ deqCount[1][b] >= 1) =>
            (deqCount[1][a] >= 1 /\ beginCount[1][a] >= 1)

\* C3 as amended: tasks are dequeued in submission order: whenever a task B
\* has been dequeued, every task A whose enqueue completed before B's began
\* has been dequeued (A's body may be entered after B was dequeued).
C3_FifoDequeue ==
    \A a, b \in TaskIds :
        (a < b /\ deqCount[1][b] >= 1) => deqCount[1][a] >= 1

\* C3 witness: A was enqueued and dequeued before B, and B has completed
\* while A has not.
C3_Witness ==
    \E a, b \in TaskIds :
        /\ a < b
        /\ deqCount[1][a] = 1
        /\ deqCount[1][b] = 1
        /\ endCount[1][b] = 1
        /\ endCount[1][a] = 0

(* --------------------- the finance server: claims ---------------------- *)

\* The requests that named account u are Deposits of one amount.
OnlyEqualDeposits(u) ==
    /\ Len(hist[u]) >= 1
    /\ \A i \in 1..Len(hist[u]) :
          /\ hist[u][i].type = DEPOSIT
          /\ hist[u][i].amount = hist[u][1].amount

\* Every request that named account u has been answered.
AllAnswered(u) ==
    \A c \in Conns : ~(InFlight(c) /\ req[c].type # QUIT /\ req[c].user_id = u)

\* C4: when M Deposit requests of amount A have been issued for an account
\* that started at balance 0, over any connections, and all M responses
\* have been sent, the balance of the account is M*A.
C4_DepositsAddUp ==
    \A u \in Accounts :
        (OnlyEqualDeposits(u) /\ AllAnswered(u))
            => balance[u] = Len(hist[u]) * hist[u][1].amount

\* Two Deposits for one account, received over two connections while both
\* were in flight, have been answered.
C4_Witness ==
    \E u \in Accounts :
        /\ OnlyEqualDeposits(u)
        /\ AllAnswered(u)
        /\ Len(hist[u]) = 2
        /\ hist[u][1].conn # hist[u][2].conn
        /\ balance[u] = 2 * hist[u][1].amount

\* C5: WITHDRAW compares and updates under the account mutex: from taking
\* the mutex to releasing it the balance is the one the handler saw; an
\* amount equal to that balance is answered ok with the balance left at 0,
\* a smaller amount is answered ok with the difference left, and a greater
\* amount is answered "Insufficient funds" with the balance left as it was.
C5_WithdrawAtomic ==
    \A c \in Conns :
        /\ hpc[c] \in {"wd_cmp", "wd_upd"} =>
              /\ accMutex[req[c].user_id] = {HandlerThread(c)}
              /\ balance[req[c].user_id] = seen[c]
        /\ hpc[c] = "wd_upd" => seen[c] >= req[c].amount
        /\ (hpc[c] = "respond" /\ req[c].type = WITHDRAW /\ ValidId(req[c].user_id)) =>
              /\ req[c].amount = seen[c] =>
                    /\ resp[c] = Resp(TRUE, 0, "Withdrawal successful")
                    /\ after[c] = 0
              /\ req[c].amount < seen[c] =>
                    /\ resp[c] = Resp(TRUE, seen[c] - req[c].amount,
                                      "Withdrawal successful")
                    /\ after[c] = seen[c] - req[c].amount
              /\ req[c].amount > seen[c] =>
                    /\ resp[c] = Resp(FALSE, 0, "Insufficient funds")
                    /\ after[c] = seen[c]

\* Two connections withdraw from one account: the first takes all of it and
\* is answered ok, the second finds less than it asked for and is refused.
C5_Witness ==
    \E c \in Conns : \E d \in Conns \ {c} :
        /\ hpc[c] = "respond" /\ hpc[d] = "respond"
        /\ req[c].type = WITHDRAW /\ req[d].type = WITHDRAW
        /\ ValidId(req[c].user_id) /\ req[d].user_id = req[c].user_id
        /\ seen[c] > 0 /\ req[c].amount = seen[c] /\ resp[c].success
        /\ req[d].amount > seen[d] /\ ~resp[d].success

\* Connection c has a request naming account u past the lazy creation.
PastCreation(c, u) ==
    /\ hpc[c] \in {"dep_lock", "dep_body", "wd_lock", "wd_cmp", "wd_upd",
                   "bal_lock", "bal_body", "respond"}
    /\ req[c].type # QUIT
    /\ req[c].user_id = u

\* C6: the first request naming a never-used account activates it with
\* balance 0 before its operation is applied; a first Deposit(u, a) is
\* answered ok, balance a, "Deposit successful"; a Withdraw(u, b) with
\* b > a that follows it on the connection is answered not ok,
\* "Insufficient funds", and the balance stays a.
C6_LazyCreateThenOverdraw ==
    \A c \in Conns : \A u \in Accounts :
        /\ (Len(hist[u]) = 1 /\ PastCreation(c, u)) =>
              /\ active[u]
              /\ accId[u] = u
              /\ hpc[c] \in {"dep_lock", "dep_body", "wd_lock", "wd_cmp",
                             "bal_lock", "bal_body"} => balance[u] = 0
        /\ (/\ Len(hist[u]) = 1
            /\ hpc[c] = "respond"
            /\ req[c].type = DEPOSIT
            /\ req[c].user_id = u) =>
              /\ resp[c] = Resp(TRUE, req[c].amount, "Deposit successful")
              /\ balance[u] = req[c].amount
        /\ (/\ Len(hist[u]) = 2
            /\ hist[u][1].conn = c /\ hist[u][1].type = DEPOSIT
            /\ hist[u][2].conn = c /\ hist[u][2].type = WITHDRAW
            /\ hist[u][2].amount > hist[u][1].amount
            /\ hpc[c] = "respond"
            /\ req[c].type = WITHDRAW
            /\ req[c].user_id = u) =>
              /\ resp[c].success = FALSE
              /\ resp[c].message = "Insufficient funds"
              /\ balance[u] = hist[u][1].amount

\* A connection deposited into a fresh account and is about to be told
\* that its larger withdrawal was refused.
C6_Witness ==
    \E c \in Conns : \E u \in Accounts :
        /\ Len(hist[u]) = 2
        /\ hist[u][1].conn = c /\ hist[u][1].type = DEPOSIT
        /\ hist[u][2].conn = c /\ hist[u][2].type = WITHDRAW
        /\ hist[u][2].amount > hist[u][1].amount
        /\ hpc[c] = "respond"
        /\ req[c].type = WITHDRAW
        /\ resp[c].message = "Insufficient funds"
        /\ balance[u] = hist[u][1].amount

\* Connection c is about to send the response of an EARN_INTEREST request
\* whose pool had at least one worker.
EarnAnswered(c) ==
    /\ hpc[c] = "respond"
    /\ req[c].type = EARN_INTEREST
    /\ ValidId(req[c].user_id)
    /\ nw[c] >= 1

\* The number of requests of type t among those that named account u.
CountOf(u, t) ==
    Cardinality({i \in 1..Len(hist[u]) : hist[u][i].type = t})

\* Every request so far came over connection c, one of them EARN_INTEREST.
OnlyConn(c) ==
    /\ \A u \in Accounts : \A i \in 1..Len(hist[u]) : hist[u][i].conn = c
    /\ \A d \in Conns \ {c} : ~InFlight(d)
    /\ CountOf(req[c].user_id, EARN_INTEREST) = 1
    /\ \A u \in Accounts \ {req[c].user_id} : CountOf(u, EARN_INTEREST) = 0

C8_RoundTrip ==
    /\ chanPc = "request_parsed" =>
          /\ ~IsFault(chanOut)
          /\ chanOut.type = chanMsg.type
          /\ chanOut.user_id = chanMsg.user_id
          /\ chanOut.filename = chanMsg.filename
          /\ chanOut.data = chanMsg.data
    /\ chanPc = "response_parsed" =>
          /\ ~IsFault(chanOut)
          /\ chanOut.success = chanMsg.success
          /\ chanOut.data = chanMsg.data
          /\ chanOut.message = chanMsg.message

\* A request whose name and payload are not empty came back as it was sent.
C8_Witness ==
    /\ chanPc = "request_parsed"
    /\ chanMsg.type = UPLOAD_FILE
    /\ chanMsg.filename # <<>>
    /\ chanMsg.data # <<>>
    /\ chanOut = chanMsg

\* The field is an optional minus sign followed by one or more digits.
IsIntegerField(s) ==
    LET ds == IF s # <<>> /\ Head(s) = "-" THEN Tail(s) ELSE s
    IN  /\ ds # <<>>
        /\ \A i \in 1..Len(ds) : ds[i] \in DigitChars

\* The integer the field denotes is one of 0..8.
Denotes0To8(s) ==
    LET ds == IF s # <<>> /\ Head(s) = "-" THEN Tail(s) ELSE s
    IN  /\ IsIntegerField(s)
        /\ \A i \in 1..(Len(ds) - 1) : ds[i] = "0"
        /\ ds[Len(ds)] # "9"
        /\ Head(s) = "-" => ds[Len(ds)] = "0"

\* Fewer than 5 fields, or a kind field that is an integer outside 0..8.
Malformed(body) ==
    \/ Len(Split(body)) < 5
    \/ /\ IsIntegerField(Split(body)[1])
       /\ ~Denotes0To8(Split(body)[1])

\* C9: parseRequest returns the sentinel Request(QUIT) with default fields,
\* and raises nothing, for every body with fewer than 5 fields and every
\* body whose kind field is an integer outside 0..8.
C9_MalformedDecodesToQuit ==
    (chanPc \in {"raw_parsed", "request_parsed"} /\ Malformed(chanBody))
        => chanOut = Request(QUIT, 0, 0, <<>>, <<>>)

\* A body of five fields with kind 9 was decoded to the sentinel.
C9_Witness ==
    /\ chanPc = "raw_parsed"
    /\ Len(Split(chanBody)) = 5
    /\ Split(chanBody)[1] = <<"9">>
    /\ chanOut = Request(QUIT, 0, 0, <<>>, <<>>)

(* -------------------- the signal coordinator: claims ------------------- *)

\* The number of records rec in the log.
Count(log, rec) ==
    Cardinality({i \in 1..Len(log) : log[i] = rec})

\* C10: shutdown_requested is true only after a SIGINT was received, once
\* stored true it is never false again, and the record "initiating graceful
\* shutdown" is appended exactly once per process: never twice, and once
\* when the flag is set and no handler is between its store and its log.
C10_ShutdownOnce ==
    /\ shutdown_requested => nSignals >= 1
    /\ wasSet => shutdown_requested
    /\ Count(signalsLog, GracefulRecord) <= 1
    /\ (shutdown_requested /\ \A t \in Threads : sigPc[t] # "log")
          => Count(signalsLog, GracefulRecord) = 1

\* Two SIGINTs handled one after the other: graceful, then forced exit.
C10_Witness ==
    /\ signalsLog = <<GracefulRecord, ForcedRecord>>
    /\ shutdown_requested
    /\ exited

(* --------------------------------- C11 --------------------------------- *)

\* The program position of thread t: of main, or of the handle_client call
\* the thread is running.
ProgramPc(t) ==
    IF t = MainThread THEN <<mainPc>>
    ELSE <<[c \in {d \in Conns : ConnThread(d) = t /\ hpc[d] \in Running} |->
              hpc[c]]>>

\* C11: a handler that finds shutdown_requested already true goes to its
\* second branch, from there only to exit(1), and never back to the code it
\* interrupted: the thread's own position in main or in handle_client does
\* not move again, and once exit was called nothing in the process moves, so
\* no drain of the pool and no cleanup follow.
C11_SecondSigintExits ==
    [][/\ ~exited
       /\ \A t \in Threads :
            /\ (sigPc[t] = "test" /\ shutdown_requested /\ sigPc'[t] # "test")
                  => sigPc'[t] = "second"
            /\ sigPc[t] = "second" => sigPc'[t] \in {"second", "exit"}
            /\ sigPc[t] = "exit" => sigPc'[t] = "exit"
            /\ sigPc[t] \in {"second", "exit"} => ProgramPc(t)' = ProgramPc(t)
            /\ (sigPc[t] = "exit" /\ exited') => UNCHANGED <<mainPc, hpc>>]_vars

\* exit(1) was called from the handler while main was still in its accept
\* loop and a connection was being served: nothing was drained.
C11_Witness ==
    /\ exited
    /\ mainPc \in {"call", "accept"}
    /\ \E c \in Conns : hpc[c] \in Running

(* --------------------------------- C12 --------------------------------- *)

\* C12 as stated: once shutdown_requested is set the accept loop begins no
\* accept call.
C12_NoAcceptBegunAfterSet ==
    acceptsAfterSet.begun = 0

\* C12: once shutdown_requested is set the accept loop begins no further
\* iteration; the iteration whose loop test passed before the flag was set
\* can still begin its accept call, so at most one accept call begins and at
\* most one connection is accepted and submitted after the flag was set, and
\* none once main has left the loop.
C12_NoIterationAfterSet ==
    /\ [](acceptsAfterSet.begun <= 1 /\ acceptsAfterSet.yielded <= 1)
    /\ [][/\ (mainPc = "loop" /\ shutdown_requested) => mainPc' # "call"
          /\ mainPc \in {"drain", "cleanup", "done"} =>
               /\ mainPc' \in {"drain", "cleanup", "done"}
               /\ \A c \in Conns :
                    hpc'[c] \in {"accepted", "queued"} => hpc'[c] = hpc[c]]_vars

\* The flag was set between the loop test and the accept call; the call
\* began afterwards, yielded a connection and the connection was submitted.
C12_Witness ==
    /\ acceptsAfterSet = [begun |-> 1, yielded |-> 1]
    /\ \E c \in Conns : hpc[c] = "queued"
    /\ mainPc = "drain"

(* --------------------------------- C13 --------------------------------- *)

\* C13: no body that the peer sent after shutdown_requested was set is
\* received and dispatched by a handler.
C13_NoLateDispatch ==
    ~lateDispatched

\* The only body sent was sent after the flag was set, and what the server
\* stores has changed.
C13_Witness ==
    /\ lateDispatched
    /\ Sends = 1
    /\ \/ \E a \in Accounts : balance[a] > 0
       \/ \E f \in FileNames : storage[f] # NoFile
       \/ logLines # <<>>

(* --------------------------------- C14 --------------------------------- *)

\* What the handler of the server's kind keeps of a body it received.
Decoded(body) ==
    IF kind = "finance" /\ ~IsFault(parseRequest(body))
      THEN BankReq(parseRequest(body))
      ELSE parseRequest(body)

\* C14: a connection is served by one worker from the start of its
\* handle_client call to its end, and a worker serves one connection at a
\* time; the handler has received exactly one request more than it has
\* answered while it processes a request and exactly as many otherwise, so
\* request k+1 is received only after the response to request k was sent;
\* the k-th request received is the k-th body the peer sent.
C14_OneWorkerInOrder ==
    /\ [](\A c \in Conns :
            /\ hpc[c] \in Running => servedBy[c] \in 1..thread_count
            /\ \A d \in Conns :
                 (c # d /\ hpc[c] \in Running /\ hpc[d] \in Running)
                   => servedBy[c] # servedBy[d]
            /\ Len(recvHist[c]) = nSent[c] + (IF InFlight(c) THEN 1 ELSE 0)
            /\ Len(recvHist[c]) <= Len(sentHist[c])
            /\ \A k \in 1..Len(recvHist[c]) :
                 recvHist[c][k] = Decoded(sentHist[c][k]))
    /\ [][\A c \in Conns :
            /\ servedBy[c] # 0 => servedBy'[c] = servedBy[c]
            /\ Len(recvHist'[c]) > Len(recvHist[c]) =>
                 /\ Len(recvHist[c]) = nSent[c]
                 /\ Len(recvHist'[c]) = Len(recvHist[c]) + 1]_vars

\* Two different requests of one connection have been received and
\* answered, one after the other.
C14_Witness ==
    \E c \in Conns :
        /\ Len(recvHist[c]) = 2
        /\ nSent[c] = 2
        /\ recvHist[c][1] # recvHist[c][2]
        /\ hpc[c] = "recv"

(* --------------------------------- C15 --------------------------------- *)

Rejected(r) ==
    ~r.success /\ r.message # ""

\* The upload r is refused by the allowlist of the file server.
Refused(r) ==
    /\ r.type = UPLOAD_FILE
    /\ allowed_extensions # {}
    /\ \/ LastDot(r.filename) = 0
       \/ Extension(r.filename) \notin allowed_extensions

\* Connection c moves from position a to another position.
Leaves(c, a) ==
    hpc[c] = a /\ hpc'[c] # a

\* C16: a request for an account id outside the table, a WITHDRAW compared
\* with a smaller balance, an upload the allowlist refuses and a download of
\* a file that is missing each get a response with success false and a
\* message that is not empty; the refused upload leaves storage as it was;
\* and a handler that has sent a response with success false goes back to
\* its loop test and from there to the next receive.
C16_ErrorsAnsweredAndOpen ==
    [][\A c \in Conns :
         /\ (kind = "finance" /\ Leaves(c, "recv") /\ Len(recvHist'[c]) > Len(recvHist[c])
               /\ req'[c].type # QUIT /\ ~ValidId(req'[c].user_id))
              => hpc'[c] = "respond" /\ Rejected(resp'[c]) /\ UNCHANGED accVars
         /\ (Leaves(c, "wd_cmp") /\ balance[req[c].user_id] < req[c].amount)
              => hpc'[c] = "respond" /\ Rejected(resp'[c]) /\ UNCHANGED balance
         /\ (kind = "file" /\ Leaves(c, "recv") /\ Len(recvHist'[c]) > Len(recvHist[c])
               /\ Refused(req'[c]))
              => hpc'[c] = "respond" /\ Rejected(resp'[c]) /\ UNCHANGED storage
         /\ (Leaves(c, "file_get") /\ storage[req[c].filename] = NoFile)
              => hpc'[c] = "respond" /\ Rejected(resp'[c])
         /\ (Leaves(c, "respond") /\ ~resp[c].success)
              => hpc'[c] = "loop" /\ nSent'[c] = nSent[c] + 1
                   /\ UNCHANGED <<accVars, storage>>
         /\ (Leaves(c, "loop") /\ ~shutdown_requested) => hpc'[c] = "recv"]_vars

\* The file server refused an upload, stored nothing under its name, and
\* the same connection then received another request.
C16_Witness ==
    \E c \in Conns :
        /\ kind = "file"
        /\ Len(recvHist[c]) = 2
        /\ Refused(recvHist[c][1])
        /\ storage[recvHist[c][1].filename] = NoFile
        /\ nSent[c] >= 1

(* --------------------------------- C17 --------------------------------- *)

\* The last request connection c received was QUIT.
QuitLast(c) ==
    recvHist[c] # <<>> /\ recvHist[c][Len(recvHist[c])].type = QUIT

\* C17: a connection the handler has stopped serving received QUIT last, or
\* shutdown was requested, or its receive failed at transport level: the
\* peer had closed, or the call was interrupted.
C17_ClosedOnlyForCause ==
    \A c \in Conns :
        hpc[c] = "closed" =>
            \/ QuitLast(c)
            \/ shutdown_requested
            \/ inbox[c] # <<>> /\ Head(inbox[c]).body = Eof
            \/ interrupted[ConnThread(c)]

\* The peer sent one body, whole, whose account field is not a number, and
\* nothing else; the handler has closed the connection.
C17_Witness ==
    \E c \in Conns :
        /\ hpc[c] = "closed"
        /\ sentHist[c] = <<BadAccountBody>>
        /\ recvHist[c] = <<>>
        /\ inbox[c] = <<>>

(* --------------------------------- C18 --------------------------------- *)

\* C18: an interrupt signal sent to the client between block_signals and
\* unblock_signals is not lost.  Once unblock_signals has taken SIGINT out
\* of the mask the handler is running or has run: whenever the client's own
\* code can take a step again shutdown_requested is true; and the client is
\* at the test of its menu loop or in its shutdown sequence, never reading
\* a choice or starting a menu operation.
C18_BlockedInterruptNotLost ==
    sentInWindow /\ ~sigBlocked =>
        /\ cpc \in {"loop", "shutdown", "done"}
        /\ CRuns => shutdown_requested

\* A SIGINT was sent during a transaction, the transaction is over, the
\* handler has set the flag and the client has left its menu loop for the
\* shutdown sequence.
C18_Witness ==
    /\ sentInWindow
    /\ ~sigBlocked
    /\ ~exited
    /\ shutdown_requested
    /\ signalsLog # <<>>
    /\ attempts >= 1
    /\ cpc = "shutdown"

(* --------------------------------- C19 --------------------------------- *)

\* The client is inside the loop of retry_operation.
InRetryLoop ==
    cpc \in {"r_while", "r_op", "r_after", "r_prompt"}

\* C19: retry_operation invokes the operation at most max_retries times,
\* and never when max_retries <= 0; it invokes it only while no invocation
\* has succeeded; after a failed attempt that is not the last allowed one
\* it has asked whether to retry, and it is still in its loop only if every
\* prompt so far was answered 'y'; when it returns it has reported that the
\* maximum was reached exactly when max_retries attempts were made and all
\* failed.
C19_RetryContract ==
    /\ attempts <= (IF max_retries > 0 THEN max_retries ELSE 0)
    /\ cpc = "r_op" => ~success
    /\ cpc \in {"r_while", "r_op"} /\ attempts >= 1 /\ ~success
           /\ attempts < max_retries
         => answer # "none"
    /\ InRetryLoop => answer \in {"none", "y"}
    /\ cpc = "unblock" =>
          (reported <=> attempts >= 1 /\ attempts = max_retries /\ ~success)

\* The same contract without the clause on the answer: this part holds.
C19_CountsAndReport ==
    /\ attempts <= (IF max_retries > 0 THEN max_retries ELSE 0)
    /\ cpc = "r_op" => ~success
    /\ cpc \in {"r_while", "r_op"} /\ attempts >= 1 /\ ~success
           /\ attempts < max_retries
         => answer # "none"
    /\ cpc = "unblock" =>
          (reported <=> attempts >= 1 /\ attempts = max_retries /\ ~success)

\* Two attempts have failed, the read at the second prompt failed because
\* the input had ended, and retry_operation is about to invoke the
\* operation a third time.
C19_Witness ==
    /\ cpc = "r_op"
    /\ attempts = 2
    /\ answer = "eof"
    /\ ~shutdown_requested

(* --------------------------------- C20 --------------------------------- *)

\* C20: when an interrupt signal is sent to the client after an attempt of
\* retry_operation has failed and before the next one begins, the retry
\* prompt included, retry_operation begins no further attempt.
C20_NoAttemptAfterInterrupt ==
    ~lateAttempt

\* An attempt failed, a SIGINT was sent while the retry prompt was waiting,
\* the user answered 'y', and the next attempt has been made with the
\* signal still pending and shutdown_requested still false.
C20_Witness ==
    /\ lateAttempt
    /\ cpc = "r_after"
    /\ attempts = 2
    /\ answer = "y"
    /\ sigBlocked
    /\ sigPending
    /\ ~shutdown_requested

(* --------------------------------- C22 --------------------------------- *)

\* C22: after startup the client holds a channel to each of the three
\* servers that is reachable, and once the closure of a Login, Deposit or
\* Upload has run against a reachable server a request has been sent to
\* that server.
C22_ConnectedToReachableServers ==
    /\ \A s \in reachable : channel[s]
    /\ cpc = "r_after" /\ op \in {"login", "deposit", "upload"}
           /\ ServerOf(op) \in reachable
         => \E t \in {LOGIN, DEPOSIT, UPLOAD_FILE} :
               <<ServerOf(op), t>> \in clientSent

\* All three servers listen; the user logged in and chose Deposit; the
\* deposit closure has run and failed, and the client has sent no request
\* to any server.
C22_Witness ==
    /\ reachable = ServerKinds
    /\ cpc = "r_after"
    /\ op = "deposit"
    /\ attempts = 1
    /\ ~success
    /\ ~channel["finance"]
    /\ clientSent = {}

(* --------------------------------- C23 --------------------------------- *)

\* C23: a handler task is submitted to the pool exactly for the accept
\* calls that returned a connection: no task is submitted for the result
\* of an accept call that failed or was interrupted, and no accepted
\* connection is left without its task.
C23_SubmittedIffAccepted ==
    /\ ~invalidSubmitted
    /\ \A c \in Conns : hpc[c] # "dropped"

\* accept failed with an error other than EINTR while no shutdown was
\* requested, and main went on to enqueue a handler task for descriptor -1.
C23_Witness ==
    /\ invalidSubmitted
    /\ mainErrno = "EFAIL"
    /\ mainPc = "loop"
    /\ ~shutdown_requested
    /\ nSignals = 0

(* --------------------------------- C24 --------------------------------- *)

\* The positions of a handler whose next step reads or writes balance,
\* active or id of the account its request names.
AccountAccess ==
    {"chk_active", "init_body", "dep_body", "wd_cmp", "wd_upd", "bal_body"}

\* C24: a handler about to read or write a field of an account, and an
\* interest task about to, holds the mutex of that account; the mutexes
\* are one per account.
C24_FieldsOnlyUnderOwnMutex ==
    /\ \A c \in Conns :
          hpc[c] \in AccountAccess =>
              HandlerThread(c) \in accMutex[req[c].user_id]
    /\ \A q \in Pools : \A w \in Workers(q) :
          wpc[q][w] = "ai_locked" => WorkerThread(q, w) \in accMutex[wtask[q][w]]
    /\ DOMAIN accMutex = Accounts

\* One handler is about to read active of an account without its mutex
\* while another handler, inside initialize with the mutex, is about to
\* write it.
C24_Witness ==
    \E c, d \in Conns :
        /\ c # d
        /\ hpc[c] = "chk_active"
        /\ hpc[d] = "init_body"
        /\ req[c].user_id = req[d].user_id
        /\ accMutex[req[c].user_id] = {HandlerThread(d)}

(* --------------------------------- C25 --------------------------------- *)

\* The positions of a handler whose next step is a receive or a send on
\* its connection.
NetworkCall ==
    {"recv", "respond", "log_respond"}

\* C25: a handler about to receive from or send to its peer holds neither
\* an account mutex nor the mutex of the log file.
C25_NoLockAcrossNetworkCall ==
    \A c \in Conns :
        hpc[c] \in NetworkCall =>
            /\ c \notin log_mutex
            /\ \A a \in Accounts : HandlerThread(c) \notin accMutex[a]

\* A handler of the logging server is about to send its response with
\* log_mutex held, and the handler of another connection waits for it.
C25_Witness ==
    \E c, d \in Conns :
        /\ kind = "logging"
        /\ hpc[c] = "log_respond"
        /\ log_mutex = {c}
        /\ hpc[d] = "log_lock"

(* --------------------------------- C26 --------------------------------- *)

\* The threads of the finance server: <<c, 0>> is the handler of connection
\* c, <<c, w>> is worker w of the pool that handler made.
ThreadIds ==
    Conns \X (0 .. MaxWorkers)

\* The locks thread t holds.
LocksHeld(t) ==
    {<<"account", a>> : a \in {x \in Accounts : t \in accMutex[x]}}
      \cup (IF t[2] \in queueMutex[t[1]] THEN {<<"queue", t[1]>>} ELSE {})
      \cup (IF t[2] = 0 /\ t[1] \in log_mutex THEN {<<"log", 0>>} ELSE {})

\* The lock thread t is about to acquire, if its next step is to lock one.
LockWanted(t) ==
    IF t[2] = 0
      THEN IF hpc[t[1]] \in {"init_lock", "dep_lock", "wd_lock", "bal_lock"}
             THEN {<<"account", req[t[1]].user_id>>}
           ELSE IF hpc[t[1]] = "log_lock" THEN {<<"log", 0>>}
           ELSE IF hpc[t[1]] = "earn" /\ opc[t[1]] \in {"ready", "d_lock"}
             THEN {<<"queue", t[1]>>}
           ELSE {}
      ELSE IF t[2] \notin Workers(t[1]) THEN {}
           ELSE IF wpc[t[1]][t[2]] = "lock" THEN {<<"queue", t[1]>>}
           ELSE IF wpc[t[1]][t[2]] = "call" THEN {<<"account", wtask[t[1]][t[2]]>>}
           ELSE {}

\* C26: no thread holds two locks at once, and a thread about to acquire a
\* lock holds none (so no account mutex is re-entered, none is taken under
\* another account's mutex or under a queue mutex, no queue mutex is taken
\* under an account mutex); hence the holder of a lock somebody waits for
\* is itself not waiting for a lock.
C26_NoLockNesting ==
    /\ \A t \in ThreadIds :
          /\ Cardinality(LocksHeld(t)) <= 1
          /\ LockWanted(t) # {} => LocksHeld(t) = {}
    /\ \A t, u \in ThreadIds :
          LockWanted(t) # {} /\ LockWanted(t) \subseteq LocksHeld(u)
            => LockWanted(u) = {}

\* An interest task holds the mutex of an account while the handler of
\* another connection waits to lock the same account for a Deposit.
C26_Witness ==
    \E c, d \in Conns : \E w \in WorkerIds :
        /\ c # d
        /\ w \in Workers(c)
        /\ wpc[c][w] = "ai_locked"
        /\ hpc[d] = "dep_lock"
        /\ req[d].user_id = wtask[c][w]
        /\ LocksHeld(<<c, w>>) = {<<"account", wtask[c][w]>>}

(* --------------------------------- C27 --------------------------------- *)

\* C27: an account is initialized at most once, and initialization never
\* overwrites a balance a Deposit has changed: a handler inside
\* Account::initialize, about to write balance = 0 and active = true, finds
\* the account not yet active and its balance still 0.
C27_InitializedAtMostOnce ==
    \A c \in Conns :
        hpc[c] = "init_body" =>
            /\ ~active[req[c].user_id]
            /\ balance[req[c].user_id] = 0

\* The account was initialized for another connection, whose Deposit was
\* applied and answered; this handler, which had read active as false
\* before that, is inside initialize and about to set the balance to 0.
C27_Witness ==
    \E c \in Conns : \E d \in Conns \ {c} :
        /\ hpc[c] = "init_body"
        /\ active[req[c].user_id]
        /\ balance[req[c].user_id] > 0
        /\ Len(hist[req[c].user_id]) = 2
        /\ hist[req[c].user_id][1].type = DEPOSIT
        /\ hist[req[c].user_id][1].conn = d
        /\ hpc[d] \in {"loop", "recv"}

(* ---------------------- the handlers: claims -------------------------- *)

\* C28: a signal handler does nothing but lock-free loads, stores and
\* increments and raw writes, so no handler is about to allocate, lock or
\* flush a stream, and none waits for the allocator lock of the code it
\* interrupted.
C28_HandlersAsyncSafe ==
    \A t \in Threads :
        /\ \A pc \in HandlerPcs(t) : Performs(pc) \subseteq AsyncSafe
        /\ ~Blocked(t)

\* sigint_handler is at its log_signal_event call on a thread that was
\* interrupted inside the allocator.
C28_Witness ==
    \E t \in Threads : sigPc[t] = "log" /\ Blocked(t)

\* C29: once a timed operation is over, by return or by exception, its
\* alarm is disarmed, and no alarm expires outside a timed operation.
C29_DisarmedOnEveryExit ==
    /\ twPc = "idle" => ~alarmArmed
    /\ ~lateAlarm

\* The operation of execute_with_timeout threw, and the alarm it armed
\* expired afterwards and set timeout_occurred.
C29_Witness ==
    /\ twPc = "idle"
    /\ twResult = "thrown"
    /\ lateAlarm
    /\ timeout_occurred

\* The children the handler has reaped and counted.
Counted ==
    {k \in 1..Len(children) :
        /\ children[k].state = "reaped"
        /\ ~(chldPc = "chld_count" /\ chldKid = k)}

\* C30 (the counter): child_exited is the number of children the handler
\* has reaped.
C30_CountsEveryReap ==
    child_exited = Cardinality(Counted)

\* C30 (the registry is kept): a step never removes or reorders entries,
\* never changes a pid or a name and never makes an inactive entry active,
\* and is_server_active and print_server_status leave the registry alone.
C30_EntriesKept ==
    [][/\ Len(server_processes') >= Len(server_processes)
       /\ \A i \in 1..Len(server_processes) :
              /\ server_processes'[i].pid = server_processes[i].pid
              /\ server_processes'[i].name = server_processes[i].name
              /\ server_processes'[i].active => server_processes[i].active
       /\ (activeAnswer' # activeAnswer \/ statusOut' # statusOut)
              => server_processes' = server_processes]_vars

\* C30: child_exited counts every child the handler reaped, and every
\* registry entry whose child the handler reaped and looked up is inactive.
C30_ReapedEntryInactive ==
    /\ C30_CountsEveryReap
    /\ \A i \in owed : ~server_processes[i].active

\* The handler has returned after reaping the child of a registered entry,
\* and the entry is still active.
C30_Witness ==
    /\ chldPc = "run"
    /\ regPc = "idle"
    /\ \E i \in owed : /\ server_processes[i].active
                       /\ children[server_processes[i].kid].state = "reaped"

(* -------------------- the pool: shutdown, claims ----------------------- *)

\* C31: ~ThreadPool sets stop only in a state where the queue is empty and
\* no worker holds a task it has dequeued and not finished running.
C31_StopOnlyWhenIdle ==
    [][\A p \in Pools :
          (~stop[p] /\ stop'[p]) => (tasks[p] = <<>> /\ HeldTasks(p) = {})]_vars

\* The destructor has just set stop while a worker holds a task that it
\* popped and has not counted in activeTasks yet.
C31_Witness ==
    /\ opc[1] = "d_notify"
    /\ stop[1]
    /\ \E w \in Workers(1) : wpc[1][w] = "popped" /\ beginCount[1][wtask[1][w]] = 0

\* C32: in a pool that is shutting down no worker has exited while the
\* queue is not empty or a worker holds a task it has not finished.
C32_NoExitBeforeDrained ==
    \A p \in Pools :
        (\E w \in Workers(p) : wpc[p][w] = "exited")
            => (tasks[p] = <<>> /\ HeldTasks(p) = {})

\* A worker has exited while another one is inside a task.
C32_Witness ==
    /\ opc[1] = "d_join"
    /\ \E w \in Workers(1) : wpc[1][w] = "exited"
    /\ \E w \in Workers(1) : wpc[1][w] = "body"

(* ----------------------- the client: claims, 2 ------------------------ *)

InDestructor(p) ==
    opc[p] \in {"d_lock", "d_check", "d_block", "d_waiting", "d_notify", "d_join"}

\* C34: once the queue is empty and every running task has finished, a
\* thread inside ~ThreadPool eventually returns from it: the notification
\* of the last finishing worker reaches the destructor.
C34_DestructorReturns ==
    (InDestructor(1) /\ tasks[1] = <<>> /\ HeldTasks(1) = {})
        ~> (opc[1] = "d_done")

\* The destructor is blocked in condition.wait on a predicate that is
\* true, every worker is blocked in its own wait, and nobody is left to
\* notify: the last worker's notify_all came between the destructor's
\* predicate check and its wait.
C34_Witness ==
    /\ opc[1] = "d_waiting"
    /\ tasks[1] = <<>>
    /\ activeTasks[1] = 0
    /\ nw[1] >= 1
    /\ \A w \in Workers(1) : wpc[1][w] = "waiting"
    /\ \E t \in TaskIds : endCount[1][t] = 1

(* ---------------------- finance: liveness of EARN_INTEREST ------------- *)

\* C35: every EARN_INTEREST request for a valid account id is eventually
\* answered, whatever its amount field and the server's thread count.
C35_EarnAnswered ==
    \A c \in Conns :
        (hpc[c] = "earn_new" /\ req[c].type = EARN_INTEREST /\ ValidId(req[c].user_id))
            ~> (hpc[c] = "respond" /\ req[c].type = EARN_INTEREST)

\* The handler is blocked in the destructor of a pool that has no worker
\* and a queue that is not empty, on a server that has threads; the
\* request's amount is positive and truncates to 0.
C35_Witness ==
    /\ hpc[1] = "earn"
    /\ opc[1] = "d_waiting"
    /\ nw[1] = 0
    /\ Len(tasks[1]) = MaxAccounts
    /\ thread_count > 0
    /\ req[1].amount > 0
    /\ req[1].amount < Scale

(* ---------------------- a server: liveness of the shutdown ------------- *)

\* main is past its accept loop, or the process has exited.
LeftAcceptLoop ==
    mainPc \in {"drain", "cleanup", "done"} \/ exited

\* C36: after a SIGINT has set shutdown_requested the server eventually
\* leaves its accept loop (or exits), without any further connection.
C36_LeavesAcceptLoop ==
    wasSet ~> LeftAcceptLoop

\* The flag is set, every handler has returned, no connection is waiting
\* or being served, and main is blocked in an accept that no handler
\* interrupted.
C36_Witness ==
    /\ shutdown_requested
    /\ ~exited
    /\ \A t \in Threads : sigPc[t] = "run"
    /\ mainPc = "accept"
    /\ ~interrupted[MainThread]
    /\ backlog = <<>>
    /\ \A c \in Conns : hpc[c] \in {"absent", "closed", "dropped"}

(* ---------------------- a server: connections and workers -------------- *)

\* The connections a worker is serving.
Serving ==
    {c \in Conns : hpc[c] \in Running}

NoNegativeDeposit ==
    \A a \in Accounts : \A i \in 1..Len(hist[a]) :
        hist[a][i].type = DEPOSIT => hist[a][i].amount >= 0

\* C38, as stated: after any DEPOSIT, WITHDRAW, BALANCE and EARN_INTEREST
\* requests, of any amounts, every balance is 0 or more.
C38_BalancesNonNegative ==
    \A a \in Accounts : balance[a] >= 0

\* C38, amended: every balance is 0 or more as long as no DEPOSIT carried
\* a negative amount; WITHDRAW amounts of any sign keep it so.
C38_NonNegativeWithoutNegativeDeposit ==
    NoNegativeDeposit => C38_BalancesNonNegative

\* A WITHDRAW of a negative amount has been answered and raised the
\* balance of account 0, without any negative DEPOSIT.
C38_Witness ==
    /\ NoNegativeDeposit
    /\ \E i \in 1..Len(hist[0]) :
          hist[0][i].type = WITHDRAW /\ hist[0][i].amount < 0
    /\ balance[0] > 0
    /\ \A c \in Conns : ~InFlight(c)

(* ---------------------- finance: requests answered ok=false ------------ *)

\* The handler of connection c is about to send a response with ok=false.
Rejecting(c) ==
    hpc[c] = "respond" /\ ~resp[c].success

\* Account a is as it was constructed: inactive, with balance 0.
Untouched(a) ==
    ~active[a] /\ balance[a] = 0

\* The only request that ever named account a is the one connection c is
\* answering.
FirstReferenceBy(c, a) ==
    /\ req[c].user_id = a
    /\ Len(hist[a]) = 1
    /\ hist[a][1].conn = c

\* Account a was named by a DEPOSIT of connection c and then by the request
\* c is answering, and by nothing else.
SecondReferenceBy(c, a) ==
    /\ req[c].user_id = a
    /\ Len(hist[a]) = 2
    /\ hist[a][1].conn = c /\ hist[a][1].type = DEPOSIT
    /\ hist[a][2].conn = c

\* C39, as stated: a request answered ok=false leaves every balance and
\* active flag as before; an account that only this request has named is
\* still as it was constructed.
C39_RejectedChangesNothing ==
    \A c \in Conns : Rejecting(c) =>
        \A a \in Accounts :
            (hist[a] = <<>> \/ FirstReferenceBy(c, a)) => Untouched(a)

\* C39, amended: a request answered ok=false changes no balance and no
\* active flag, except that the first reference to a valid id creates
\* the account (active, balance 0) before the request is rejected.
C39_RejectedOnlyCreates ==
    \A c \in Conns : Rejecting(c) =>
        \A a \in Accounts :
            /\ hist[a] = <<>> => Untouched(a)
            /\ FirstReferenceBy(c, a) => (active[a] /\ balance[a] = 0)
            /\ SecondReferenceBy(c, a) =>
                  (active[a] /\ balance[a] = hist[a][1].amount)

\* A WITHDRAW that is the first reference to account 0 is being rejected
\* for insufficient funds, and account 0 is now active.
C39_Witness ==
    /\ Rejecting(1)
    /\ req[1].type = WITHDRAW
    /\ FirstReferenceBy(1, 0)
    /\ active[0]
    /\ ~active[1]

(* ---------------------- the client: who is logged in ------------------- *)

\* The client is between transactions, or past its menu loop.
BetweenTransactions ==
    cpc \in {"loop", "read", "check", "shutdown", "done"}

\* C40: outside a Login transaction current_user differs from -1 only if
\* a Login request was answered ok=true, for which it was at least sent
\* to the logging server; after a failed Login nobody is logged in.
C40_LoggedInOnlyAfterLogin ==
    (current_user # 0 - 1 /\ (BetweenTransactions \/ op # "login"))
        => <<"logging", TypeOf("login")>> \in clientSent

\* The login check of Deposit has passed and the transaction begins,
\* although no request was ever sent to any server.
C40_Witness ==
    /\ cpc = "block"
    /\ op = "deposit"
    /\ current_user # 0 - 1
    /\ clientSent = {}

====
